---- MODULE Spec2Model ----
(***************************************************************************)
(* The wechat-jsonbot channel plugin: the runtime holder (runtime.ts), the *)
(* inbound webhook handler (webhook.ts) and the outbound send functions    *)
(* (channel.ts).                                                           *)
(*                                                                         *)
(* A JavaScript string is a sequence of one-character strings, so that     *)
(* trim, toLowerCase, startsWith, slice, split and the trailing-slash      *)
(* regular expression are computed as the code computes them.  A value     *)
(* that may be undefined/null is a sequence of length 0 (undefined) or 1.  *)
(***************************************************************************)
EXTENDS Integers, Sequences, FiniteSets, TLC

None == <<>>
Some(x) == <<x>>

---------------------------------------------------------------------------
(* String primitives                                                       *)

Whitespace == {" ", "\t"}

UpperLetters ==
  <<"A","B","C","D","E","F","G","H","I","J","K","L","M",
    "N","O","P","Q","R","S","T","U","V","W","X","Y","Z">>

LowerLetters ==
  <<"a","b","c","d","e","f","g","h","i","j","k","l","m",
    "n","o","p","q","r","s","t","u","v","w","x","y","z">>

toLowerChar(c) ==
  IF \E i \in DOMAIN UpperLetters : UpperLetters[i] = c
    THEN LowerLetters[CHOOSE i \in DOMAIN UpperLetters : UpperLetters[i] = c]
    ELSE c

toUpperChar(c) ==
  IF \E i \in DOMAIN LowerLetters : LowerLetters[i] = c
    THEN UpperLetters[CHOOSE i \in DOMAIN LowerLetters : LowerLetters[i] = c]
    ELSE c

toLowerCase(s) == [i \in 1..Len(s) |-> toLowerChar(s[i])]

toUpperCase(s) == [i \in 1..Len(s) |-> toUpperChar(s[i])]

RECURSIVE trimStart(_)
trimStart(s) ==
  IF Len(s) > 0 /\ s[1] \in Whitespace THEN trimStart(Tail(s)) ELSE s

RECURSIVE trimEnd(_)
trimEnd(s) ==
  IF Len(s) > 0 /\ s[Len(s)] \in Whitespace
    THEN trimEnd(SubSeq(s, 1, Len(s) - 1))
    ELSE s

trim(s) == trimEnd(trimStart(s))

startsWith(s, p) == Len(s) >= Len(p) /\ SubSeq(s, 1, Len(p)) = p

\* s.slice(n)
slice(s, n) == SubSeq(s, n + 1, Len(s))

\* s.split(sep)[0]: the part of s before the first occurrence of the character sep
RECURSIVE splitFirst(_, _)
splitFirst(s, sep) ==
  IF Len(s) = 0 \/ s[1] = sep THEN <<>>
  ELSE <<s[1]>> \o splitFirst(Tail(s), sep)

\* s.replace(/[\\/]+$/, ""): drops the whole trailing run of "/" and "\" characters
RECURSIVE stripTrailingSlashes(_)
stripTrailingSlashes(s) ==
  IF Len(s) > 0 /\ s[Len(s)] \in {"/", "\\"}
    THEN stripTrailingSlashes(SubSeq(s, 1, Len(s) - 1))
    ELSE s

\* x ?? d
orElse(x, d) == IF x = None THEN d ELSE x[1]

---------------------------------------------------------------------------
(* Host configuration and the account resolver (channel.ts)                *)

DEFAULT_ACCOUNT_ID == <<"d","e","f","a","u","l","t">>

\* WechatJsonBotAccountConfig: every field is optional
WechatConfig(enabled, name, jsonBotBaseUrl, inboundToken) ==
  [enabled |-> enabled, name |-> name,
   jsonBotBaseUrl |-> jsonBotBaseUrl, inboundToken |-> inboundToken]

\* the {} of `raw ?? {}`
EmptyWechatConfig == WechatConfig(None, None, None, None)

\* OpenClawConfig, as far as the plugin reads or copies it: the channels
\* object (the wechat entry and one other channel) and one other top-level key
OpenClawConfig(channels, session) == [channels |-> channels, session |-> session]

Channels(wechat, telegram) == [wechat |-> wechat, telegram |-> telegram]

resolveWechatConfig(c) ==
  IF c.channels = None THEN EmptyWechatConfig
  ELSE orElse(c.channels[1].wechat, EmptyWechatConfig)

\* resolveWechatAccount that resolves a disabled account to an empty configuration
resolveWechatAccountGated(c, accountId) ==
  LET config == resolveWechatConfig(c)
  IN  [accountId |-> orElse(accountId, DEFAULT_ACCOUNT_ID),
       enabled |-> config.enabled # Some(FALSE),
       name |-> config.name,
       config |-> IF config.enabled = Some(FALSE) THEN EmptyWechatConfig ELSE config]

resolveWechatAccount(c, accountId) ==
  LET id == IF trim(orElse(accountId, DEFAULT_ACCOUNT_ID)) = <<>>
              THEN DEFAULT_ACCOUNT_ID
              ELSE trim(orElse(accountId, DEFAULT_ACCOUNT_ID))
      config == resolveWechatConfig(c)
  IN  [accountId |-> id,
       enabled |-> IF config.enabled # None THEN config.enabled[1] ELSE TRUE,
       name |-> config.name,
       config |-> config]

\* normalizeBaseUrl that tests the value without trimming it
normalizeBaseUrlUntrimmed(raw) ==
  IF orElse(raw, <<>>) = <<>> THEN None
  ELSE Some(stripTrailingSlashes(orElse(raw, <<>>)))

\* normalizeBaseUrl whose regular expression lacks the +: one trailing slash goes
normalizeBaseUrlOneSlash(raw) ==
  LET trimmed == trim(orElse(raw, <<>>))
  IN  IF trimmed = <<>> THEN None
      ELSE IF trimmed[Len(trimmed)] \in {"/", "\\"}
        THEN Some(SubSeq(trimmed, 1, Len(trimmed) - 1))
        ELSE Some(trimmed)

\* both copies (channel.ts returns undefined, webhook.ts null, for a blank value)
normalizeBaseUrl(raw) ==
  LET trimmed == trim(orElse(raw, <<>>))
  IN  IF trimmed = <<>> THEN None ELSE Some(stripTrailingSlashes(trimmed))

\* applyWechatConfig, for the two keys configure patches
applyWechatConfig(c, patch) ==
  LET channels == orElse(c.channels, Channels(None, None))
      current == orElse(channels.wechat, EmptyWechatConfig)
  IN  [c EXCEPT !.channels =
         Some([channels EXCEPT !.wechat =
                 Some([current EXCEPT !.jsonBotBaseUrl = patch.jsonBotBaseUrl,
                                      !.inboundToken = patch.inboundToken,
                                      !.enabled = Some(TRUE)])])]

\* wechatOnboardingAdapter.configure, given the prompter's two answers
configure(c, nextBaseUrl, nextInboundToken) ==
  LET baseUrl == normalizeBaseUrl(Some(nextBaseUrl))
      trimmed == trim(orElse(nextInboundToken, <<>>))
      inboundToken == IF trimmed = <<>> THEN None ELSE Some(trimmed)
  IN  applyWechatConfig(c, [jsonBotBaseUrl |-> baseUrl, inboundToken |-> inboundToken])

\* disable that writes a fresh wechat entry
disableClearing(c) ==
  LET channels == orElse(c.channels, Channels(None, None))
  IN  [c EXCEPT !.channels =
         Some([channels EXCEPT !.wechat =
                 Some([EmptyWechatConfig EXCEPT !.enabled = Some(FALSE)])])]

\* wechatOnboardingAdapter.disable
disable(c) ==
  LET channels == orElse(c.channels, Channels(None, None))
      current == orElse(channels.wechat, EmptyWechatConfig)
  IN  [c EXCEPT !.channels =
         Some([channels EXCEPT !.wechat = Some([current EXCEPT !.enabled = Some(FALSE)])])]

\* !x for a string | null | undefined
falsy(x) == x = None \/ x[1] = <<>>

\* normalizeWechatTarget whose regular expression lacks the i flag
normalizeWechatTargetCaseSensitive(raw) ==
  LET t == trim(raw)
      rest == IF startsWith(t, <<"w","e","c","h","a","t",":">>) THEN slice(t, 7)
              ELSE IF startsWith(t, <<"w","x",":">>) THEN slice(t, 3)
              ELSE t
  IN  trim(rest)

\* raw.trim().replace(/^(wechat|wx):/i, "").trim()
normalizeWechatTarget(raw) ==
  LET t == trim(raw)
      lower == toLowerCase(t)
      rest == IF startsWith(lower, <<"w","e","c","h","a","t",":">>) THEN slice(t, 7)
              ELSE IF startsWith(lower, <<"w","x",":">>) THEN slice(t, 3)
              ELSE t
  IN  trim(rest)

---------------------------------------------------------------------------
(* The webhook's pure helpers (webhook.ts)                                 *)

WebhookPath == <<"/","w","e","b","h","o","o","k","/","w","e","c","h","a","t">>

POST == <<"P","O","S","T">>

BearerPrefix == <<"b","e","a","r","e","r"," ">>

\* A header is string | string[] | undefined: the list of its values (no value:
\* undefined or []); `Array.isArray(h) ? h[0] : h` is its first value.
headerValue(h) == IF Len(h) = 0 THEN None ELSE Some(h[1])

parseBearerToken(h) ==
  LET value == headerValue(h) IN
  IF falsy(value) THEN None
  ELSE LET trimmed == trim(value[1])
           lower == toLowerCase(trimmed)
       IN  IF trimmed = <<>> THEN None
           ELSE IF ~startsWith(lower, BearerPrefix) THEN None
           ELSE LET token == trim(slice(trimmed, Len(BearerPrefix)))
                IN  IF token = <<>> THEN None ELSE Some(token)

\* shouldHandlePath that accepts every path under the webhook path
shouldHandlePathPrefix(url) == startsWith(trim(orElse(url, <<>>)), WebhookPath)

shouldHandlePath(url) ==
  LET value == trim(orElse(url, <<>>)) IN
  IF value = <<>> THEN FALSE
  ELSE splitFirst(value, "?") = WebhookPath

\* (account.config.inboundToken ?? "").trim()
expectedToken(c) ==
  trim(orElse(resolveWechatAccount(c, Some(DEFAULT_ACCOUNT_ID)).config.inboundToken, <<>>))

\* requestToken without the fallback header
requestTokenBearerOnly(headers) == parseBearerToken(headers.authorization)

\* parseBearerToken(authorization) ?? x-openclaw-token ?? null
requestToken(headers) ==
  IF parseBearerToken(headers.authorization) # None
    THEN parseBearerToken(headers.authorization)
    ELSE headerValue(headers.xOpenclawToken)

\* unauthorized that rejects only a token that is present and wrong
unauthorizedWhenPresent(headers, c) ==
  /\ expectedToken(c) # <<>>
  /\ ~falsy(requestToken(headers))
  /\ trim(requestToken(headers)[1]) # expectedToken(c)

\* the condition of the 401 branch
unauthorized(headers, c) ==
  /\ expectedToken(c) # <<>>
  /\ \/ falsy(requestToken(headers))
     \/ trim(requestToken(headers)[1]) # expectedToken(c)

\* ServerResponse, as far as the handler touches it; ends counts res.end calls
NoResponse == [headersSent |-> FALSE, statusCode |-> 0, ok |-> FALSE, error |-> "", ends |-> 0]

respondJson(response, statusCode, ok, error) ==
  IF response.headersSent THEN response
  ELSE [headersSent |-> TRUE, statusCode |-> statusCode, ok |-> ok, error |-> error,
        ends |-> response.ends + 1]

---------------------------------------------------------------------------
(* The request body: its JSON value                                        *)

\* A JSON scalar held by a field of the inbound payload
JsonString(chars) == [t |-> "string", s |-> chars, n |-> 0]
JsonNumber(n) == [t |-> "number", s |-> <<>>, n |-> n]
JsonNullScalar == [t |-> "null", s |-> <<>>, n |-> 0]

\* What JSON.parse returns: null, a number, or an object with the fields of
\* MoltbotInboundPayload (each absent, or a scalar)
JsonValue(t, sender, message, timestamp) ==
  [t |-> t, sender |-> sender, message |-> message, timestamp |-> timestamp]

JsonNull == JsonValue("null", None, None, None)
JsonTopNumber == JsonValue("number", None, None, None)
JsonObject(sender, message, timestamp) == JsonValue("object", sender, message, timestamp)
EmptyObject == JsonObject(None, None, None)

Digits == <<"0","1","2","3","4","5","6","7","8","9">>

\* String(n) for a natural number
RECURSIVE numberToString(_)
numberToString(n) ==
  IF n < 10 THEN <<Digits[n + 1]>>
  ELSE numberToString(n \div 10) \o <<Digits[(n % 10) + 1]>>

\* String(field ?? ""): undefined and null give "", a number its decimal digits
stringOf(field) ==
  IF field = None \/ field[1].t = "null" THEN <<>>
  ELSE IF field[1].t = "number" THEN numberToString(field[1].n)
  ELSE field[1].s

\* The request body as text: blank (empty or whitespace only), malformed JSON, or
\* the JSON text of a value
BodyText(kind, value) == [kind |-> kind, value |-> value]

BlankBody == BodyText("blank", JsonNull)
MalformedBody == BodyText("malformed", JsonNull)
JsonBody(v) == BodyText("json", v)

\* the tail of readJsonBody: text.trim() empty gives {}, else JSON.parse(text),
\* which throws on malformed text (None here)
parseBodyText(b) ==
  IF b.kind = "blank" THEN Some(EmptyObject)
  ELSE IF b.kind = "malformed" THEN None
  ELSE Some(b.value)

\* String(payload.sender ?? "").trim() and String(payload.message ?? "").trim()
senderOf(payload) == trim(stringOf(payload.sender))
textOf(payload) == trim(stringOf(payload.message))

\* typeof timestamp === "number" && isFinite ? Math.round(timestamp * 1000) : undefined
\* (the model's JSON numbers are whole)
timestampMsOf(payload) ==
  IF payload.timestamp # None /\ payload.timestamp[1].t = "number"
    THEN Some(payload.timestamp[1].n * 1000)
    ELSE None

---------------------------------------------------------------------------
(* Outbound POST (postJson in channel.ts and, identically, in webhook.ts)  *)

\* What fetch does: a response (status, status text, body text or a failing
\* body read), or a rejection (network failure, abort at the timeout)
FetchResponse(status, statusText, body) ==
  [kind |-> "response", status |-> status, statusText |-> statusText,
   body |-> body, err |-> ""]

FetchRejection(err) ==
  [kind |-> "rejection", status |-> 0, statusText |-> "", body |-> None, err |-> err]

\* postJson that takes any response for a success
postJsonAnyResponse(outcome) ==
  IF outcome.kind = "response"
    THEN [ok |-> TRUE, status |-> Some(outcome.status), error |-> None]
    ELSE [ok |-> FALSE, status |-> None, error |-> Some(outcome.err)]

\* the {ok, status?, error?} postJson resolves to
postJson(outcome) ==
  IF outcome.kind = "response"
    THEN IF outcome.status >= 200 /\ outcome.status <= 299
           THEN [ok |-> TRUE, status |-> Some(outcome.status), error |-> None]
           ELSE LET text == orElse(outcome.body, "")   \* resp.text().catch(() => "")
                IN  [ok |-> FALSE, status |-> Some(outcome.status),
                     error |-> Some(IF text # "" THEN text ELSE outcome.statusText)]
    ELSE [ok |-> FALSE, status |-> None, error |-> Some(outcome.err)]

ReplySuffix == <<"/","r","e","p","l","y">>

\* one POST to `${baseUrl}/reply`
ReplyPost(baseUrl, sessionName, content, type, timeoutMs) ==
  [url |-> baseUrl \o ReplySuffix, session_name |-> sessionName,
   content |-> content, type |-> type, timeoutMs |-> timeoutMs]

TextTimeoutMs == 5000
FileTimeoutMs == 15000

\* the message of the error thrown or logged for a non-ok result:
\* `... failed status=${result.status ?? ""} err=${result.error ?? ""}`
FailureMessage(what, result) ==
  [what |-> what, status |-> result.status, err |-> orElse(result.error, "")]

PlainMessage(what) == [what |-> what, status |-> None, err |-> ""]

---------------------------------------------------------------------------
(* State                                                                   *)

VARIABLES
  runtime,    \* runtime.ts: the module-level slot, None until setWechatRuntime
  registered, \* the api.runtime the host last called register with (None before)
  hostCfg,    \* what runtime.config.loadConfig() returns
  onboarding, \* the last onboarding call: its operation, input, answers and result
  req,        \* per request: method, url and the two headers
  pc,         \* per request: where handleWechatWebhookRequest stands
  rt,         \* per request: the handler's runtime, from getWechatRuntime (None before)
  cfg,        \* per request: the configuration loaded for it (None before)
  size,       \* per request: readJsonBody's byte counter
  nchunks,    \* per request: chunks readJsonBody has taken
  body,       \* per request: the body text readJsonBody decoded (None before)
  parsed,     \* per request: what readJsonBody returned (None before)
  res,        \* per request: the ServerResponse
  ret,        \* per request: the handler's promise: pending, false, true, or rejected
  inb,        \* per request: where handleInbound stands, and its locals
  meta,       \* per request: the recordSessionMetaFromInbound promise
  hostCalls,  \* per request: the host calls made, in order
  logs,       \* per request: the logger.error messages, in order
  posts,      \* per request: the outbound POSTs issued, in order
  results,    \* per request: what postJson resolved to, per completed POST
  timers,     \* per request: armed postJson timeout timers
  npayloads,  \* per request: reply payloads the host dispatcher has produced
  call,       \* the sendText / sendMedia call in progress, and its locals
  callPosts,  \* the outbound POSTs that call issued, in order
  callResults,\* what postJson resolved to, per completed POST of that call
  callTimers, \* armed postJson timeout timers of that call
  sent        \* the sendText / sendMedia calls that have settled, in order

webhookVars ==
  <<req, pc, rt, cfg, size, nchunks, body, parsed, res, ret, inb, meta, hostCalls, logs,
    posts, results, timers, npayloads>>

sendVars == <<call, callPosts, callResults, callTimers, sent>>

vars == <<runtime, registered, hostCfg, onboarding, webhookVars, sendVars, sent>>

Reqs == {"r1", "r2"}

MaxBytes == 262144

MaxChunks == 3
MaxPayloads == 1
MaxCalls == 2

Request(method, url, authorization, xOpenclawToken) ==
  [method |-> method, url |-> url,
   headers |-> [authorization |-> authorization, xOpenclawToken |-> xOpenclawToken]]

NoRequest == Request(None, None, <<>>, <<>>)

\* handleInbound's position and the locals the delivery callback uses
\* (payload: the reply payload the callback was last called with, None before)
Inbound(at, jsonBotBaseUrl, text, mediaUrls) ==
  [at |-> at, jsonBotBaseUrl |-> jsonBotBaseUrl, text |-> text, mediaUrls |-> mediaUrls,
   payload |-> None]

NotCalled == Inbound("none", <<>>, <<>>, <<>>)

NoCall ==
  [op |-> "none", at |-> "idle", cfg |-> OpenClawConfig(None, None), to |-> <<>>,
   text |-> None, mediaUrl |-> <<>>, baseUrl |-> <<>>, sessionName |-> <<>>,
   caption |-> <<>>, outcome |-> "pending", error |-> PlainMessage(""), chatId |-> <<>>]

InitWebhook ==
  /\ req = [r \in Reqs |-> NoRequest]
  /\ pc = [r \in Reqs |-> "idle"]
  /\ rt = [r \in Reqs |-> None]
  /\ cfg = [r \in Reqs |-> None]
  /\ size = [r \in Reqs |-> 0]
  /\ nchunks = [r \in Reqs |-> 0]
  /\ body = [r \in Reqs |-> None]
  /\ parsed = [r \in Reqs |-> None]
  /\ res = [r \in Reqs |-> NoResponse]
  /\ ret = [r \in Reqs |-> "pending"]
  /\ inb = [r \in Reqs |-> NotCalled]
  /\ meta = [r \in Reqs |-> "none"]
  /\ hostCalls = [r \in Reqs |-> <<>>]
  /\ logs = [r \in Reqs |-> <<>>]
  /\ posts = [r \in Reqs |-> <<>>]
  /\ results = [r \in Reqs |-> <<>>]
  /\ timers = [r \in Reqs |-> 0]
  /\ npayloads = [r \in Reqs |-> 0]

\* an onboarding call: the configuration passed in, the prompter's answers, and
\* the configuration returned, which the host persists
Onboarding(op, input, nextBaseUrl, nextInboundToken, result) ==
  [op |-> op, input |-> input, nextBaseUrl |-> nextBaseUrl,
   nextInboundToken |-> nextInboundToken, result |-> result]

NoOnboarding ==
  Onboarding("none", OpenClawConfig(None, None), <<>>, None, OpenClawConfig(None, None))

InitSend ==
  /\ onboarding = NoOnboarding
  /\ call = NoCall
  /\ callPosts = <<>>
  /\ callResults = <<>>
  /\ callTimers = 0
  /\ sent = <<>>

---------------------------------------------------------------------------
(* runtime.ts and the plugin's register (src/unnamed/part_000)             *)

\* setWechatRuntime that keeps the value of the first call
setWechatRuntimeOnce(next) ==
  /\ runtime' = IF runtime = None THEN Some(next) ELSE runtime
  /\ UNCHANGED <<hostCfg, onboarding, webhookVars, sendVars, sent>>

setWechatRuntime(next) ==
  /\ runtime' = Some(next)
  /\ UNCHANGED <<hostCfg, onboarding, webhookVars, sendVars, sent>>

\* the stored value; None stands for the "WeChat runtime not initialized" throw
getWechatRuntime == runtime

---------------------------------------------------------------------------
(* handleWechatWebhookRequest, one request at a time (webhook.ts 227-283)  *)

\* everything of a request but the named variables is left alone
Only(changed) ==
  /\ UNCHANGED <<runtime, registered, hostCfg, onboarding, sendVars>>
  /\ IF "req" \in changed THEN TRUE ELSE UNCHANGED req
  /\ IF "pc" \in changed THEN TRUE ELSE UNCHANGED pc
  /\ IF "rt" \in changed THEN TRUE ELSE UNCHANGED rt
  /\ IF "cfg" \in changed THEN TRUE ELSE UNCHANGED cfg
  /\ IF "size" \in changed THEN TRUE ELSE UNCHANGED <<size, nchunks>>
  /\ IF "parsed" \in changed THEN TRUE ELSE UNCHANGED <<body, parsed>>
  /\ IF "res" \in changed THEN TRUE ELSE UNCHANGED res
  /\ IF "ret" \in changed THEN TRUE ELSE UNCHANGED ret
  /\ IF "inb" \in changed THEN TRUE ELSE UNCHANGED inb
  /\ IF "meta" \in changed THEN TRUE ELSE UNCHANGED meta
  /\ IF "hostCalls" \in changed THEN TRUE ELSE UNCHANGED hostCalls
  /\ IF "logs" \in changed THEN TRUE ELSE UNCHANGED logs
  /\ IF "posts" \in changed THEN TRUE ELSE UNCHANGED <<posts, results, timers>>
  /\ IF "npayloads" \in changed THEN TRUE ELSE UNCHANGED npayloads

\* the host hands the request to the handler
Receive(r, q) ==
  /\ pc[r] = "idle"
  /\ req' = [req EXCEPT ![r] = q]
  /\ pc' = [pc EXCEPT ![r] = "entry"]
  /\ Only({"req", "pc"})

\* lines 231-236
CheckMethodPath(r) ==
  /\ pc[r] = "entry"
  /\ IF toUpperCase(orElse(req[r].method, <<>>)) # POST \/ ~shouldHandlePath(req[r].url)
       THEN /\ ret' = [ret EXCEPT ![r] = "false"]
            /\ pc' = [pc EXCEPT ![r] = "done"]
       ELSE /\ pc' = [pc EXCEPT ![r] = "getRuntime"]
            /\ UNCHANGED ret
  /\ Only({"pc", "ret"})

\* line 238
GetRuntime(r) ==
  /\ pc[r] = "getRuntime"
  /\ IF getWechatRuntime = None
       THEN /\ ret' = [ret EXCEPT ![r] = "rejected: WeChat runtime not initialized"]
            /\ pc' = [pc EXCEPT ![r] = "done"]
            /\ UNCHANGED rt
       ELSE /\ rt' = [rt EXCEPT ![r] = getWechatRuntime]
            /\ pc' = [pc EXCEPT ![r] = "loadConfig"]
            /\ UNCHANGED ret
  /\ Only({"pc", "rt", "ret"})

\* lines 239-240: the host's getChildLogger and loadConfig return
LoadConfig(r) ==
  /\ pc[r] = "loadConfig"
  /\ cfg' = [cfg EXCEPT ![r] = Some(hostCfg)]
  /\ pc' = [pc EXCEPT ![r] = "auth"]
  /\ Only({"pc", "cfg"})

\* lines 239-240: one of them throws
LoadConfigThrows(r) ==
  /\ pc[r] = "loadConfig"
  /\ ret' = [ret EXCEPT ![r] = "rejected: host"]
  /\ pc' = [pc EXCEPT ![r] = "done"]
  /\ Only({"pc", "ret"})

\* lines 241-254
AuthCheck(r) ==
  /\ pc[r] = "auth"
  /\ IF unauthorized(req[r].headers, cfg[r][1])
       THEN /\ res' = [res EXCEPT ![r] = respondJson(res[r], 401, FALSE, "unauthorized")]
            /\ ret' = [ret EXCEPT ![r] = "true"]
            /\ pc' = [pc EXCEPT ![r] = "done"]
       ELSE /\ pc' = [pc EXCEPT ![r] = "body"]
            /\ UNCHANGED <<res, ret>>
  /\ Only({"pc", "res", "ret"})

\* ReadChunk that fails as soon as the cap is reached
ReadChunkAtCap(r, len) ==
  /\ pc[r] = "body"
  /\ nchunks[r] < MaxChunks
  /\ size' = [size EXCEPT ![r] = size[r] + len]
  /\ nchunks' = [nchunks EXCEPT ![r] = nchunks[r] + 1]
  /\ IF size[r] + len >= MaxBytes
       THEN /\ res' = [res EXCEPT ![r] =
                          respondJson(res[r], 400, FALSE, "Error: payload too large")]
            /\ ret' = [ret EXCEPT ![r] = "true"]
            /\ pc' = [pc EXCEPT ![r] = "done"]
       ELSE UNCHANGED <<res, ret, pc>>
  /\ Only({"size", "pc", "res", "ret"})

\* readJsonBody, lines 34-41: one chunk of len bytes arrives
ReadChunk(r, len) ==
  /\ pc[r] = "body"
  /\ nchunks[r] < MaxChunks
  /\ size' = [size EXCEPT ![r] = size[r] + len]
  /\ nchunks' = [nchunks EXCEPT ![r] = nchunks[r] + 1]
  /\ IF size[r] + len > MaxBytes
       THEN \* throw new Error("payload too large"), caught at line 259
            /\ res' = [res EXCEPT ![r] =
                          respondJson(res[r], 400, FALSE, "Error: payload too large")]
            /\ ret' = [ret EXCEPT ![r] = "true"]
            /\ pc' = [pc EXCEPT ![r] = "done"]
       ELSE UNCHANGED <<res, ret, pc>>
  /\ Only({"size", "pc", "res", "ret"})

\* a body text b can be what size bytes hold: no bytes hold only the empty text
Fits(b, bytes) == bytes > 0 \/ b.kind = "blank"

\* readJsonBody, lines 42-46 and the catch of lines 259-262: the stream ends
ReadEnd(r, b) ==
  /\ pc[r] = "body"
  /\ Fits(b, size[r])
  /\ body' = [body EXCEPT ![r] = Some(b)]
  /\ IF parseBodyText(b) = None
       THEN /\ res' = [res EXCEPT ![r] =
                          respondJson(res[r], 400, FALSE, "SyntaxError")]
            /\ ret' = [ret EXCEPT ![r] = "true"]
            /\ pc' = [pc EXCEPT ![r] = "done"]
            /\ UNCHANGED <<parsed, size, nchunks>>
       ELSE /\ parsed' = [parsed EXCEPT ![r] = parseBodyText(b)]
            /\ pc' = [pc EXCEPT ![r] = "validate"]
            /\ size' = [size EXCEPT ![r] = 0]
            /\ nchunks' = [nchunks EXCEPT ![r] = 0]
            /\ UNCHANGED <<res, ret>>
  /\ Only({"size", "parsed", "pc", "res", "ret"})

\* readJsonBody, line 34: the request stream fails (the client went away)
ReadError(r) ==
  /\ pc[r] = "body"
  /\ res' = [res EXCEPT ![r] = respondJson(res[r], 400, FALSE, "Error: aborted")]
  /\ ret' = [ret EXCEPT ![r] = "true"]
  /\ pc' = [pc EXCEPT ![r] = "done"]
  /\ Only({"pc", "res", "ret"})

\* lines 264-270; reading a property of null throws a TypeError
Validate(r) ==
  /\ pc[r] = "validate"
  /\ IF parsed[r][1].t = "null"
       THEN /\ ret' = [ret EXCEPT ![r] = "rejected: TypeError"]
            /\ pc' = [pc EXCEPT ![r] = "done"]
            /\ UNCHANGED res
       ELSE IF senderOf(parsed[r][1]) = <<>> \/ textOf(parsed[r][1]) = <<>>
         THEN /\ res' = [res EXCEPT ![r] =
                            respondJson(res[r], 400, FALSE, "missing sender or message")]
              /\ ret' = [ret EXCEPT ![r] = "true"]
              /\ pc' = [pc EXCEPT ![r] = "done"]
         ELSE /\ pc' = [pc EXCEPT ![r] = "ack"]
              /\ UNCHANGED <<res, ret>>
  /\ Only({"pc", "res", "ret"})

\* Respond202 that leaves the response for later
Respond202Deferred(r) ==
  /\ pc[r] = "ack"
  /\ pc' = [pc EXCEPT ![r] = "spawn"]
  /\ Only({"pc"})

\* line 272
Respond202(r) ==
  /\ pc[r] = "ack"
  /\ res' = [res EXCEPT ![r] = respondJson(res[r], 202, TRUE, "")]
  /\ pc' = [pc EXCEPT ![r] = "spawn"]
  /\ Only({"pc", "res"})

\* lines 274-280: handleInbound is called and runs to its first suspension
CallHandleInbound(r) ==
  /\ pc[r] = "spawn"
  /\ inb' = [inb EXCEPT ![r].at = "host"]
  /\ pc' = [pc EXCEPT ![r] = "return"]
  /\ Only({"pc", "inb"})

\* handleInbound has not yet suspended, returned or thrown
InboundRunning(r) == inb[r].at \in {"host", "meta", "account", "dispatch"}

\* line 282: the handler does not await handleInbound
ReturnTrue(r) ==
  /\ pc[r] = "return"
  /\ ~InboundRunning(r)
  /\ ret' = [ret EXCEPT ![r] = "true"]
  /\ pc' = [pc EXCEPT ![r] = "done"]
  /\ Only({"pc", "ret"})

---------------------------------------------------------------------------
(* handleInbound (webhook.ts 94-216), the detached continuation            *)

\* the host calls of lines 102-127, in order, each of which may throw
HostPipeline ==
  <<"getChildLogger", "resolveAgentRoute", "resolveStorePath",
    "resolveEnvelopeFormatOptions", "readSessionUpdatedAt", "formatAgentEnvelope",
    "finalizeInboundContext">>

Log(r, message) == logs' = [logs EXCEPT ![r] = Append(logs[r], message)]

Called(r, name) == hostCalls' = [hostCalls EXCEPT ![r] = Append(hostCalls[r], name)]

\* lines 102-127: the next host call returns
HostCall(r) ==
  /\ inb[r].at = "host"
  /\ Called(r, HostPipeline[Len(hostCalls[r]) + 1])
  /\ inb' = [inb EXCEPT ![r].at =
               IF Len(hostCalls[r]) + 1 = Len(HostPipeline) THEN "meta" ELSE "host"]
  /\ Only({"inb", "hostCalls"})

\* lines 102-127: the next host call throws, which rejects handleInbound's promise
HostCallThrows(r) ==
  /\ inb[r].at = "host"
  /\ Called(r, HostPipeline[Len(hostCalls[r]) + 1])
  /\ inb' = [inb EXCEPT ![r].at = "rejected"]
  /\ Only({"inb", "hostCalls"})

\* lines 145-153: recordSessionMetaFromInbound returns its promise, not awaited
RecordSessionMeta(r) ==
  /\ inb[r].at = "meta"
  /\ Called(r, "recordSessionMetaFromInbound")
  /\ meta' = [meta EXCEPT ![r] = "pending"]
  /\ inb' = [inb EXCEPT ![r].at = "account"]
  /\ Only({"inb", "meta", "hostCalls"})

\* lines 145-153: recordSessionMetaFromInbound throws before returning a promise
RecordSessionMetaThrows(r) ==
  /\ inb[r].at = "meta"
  /\ Called(r, "recordSessionMetaFromInbound")
  /\ inb' = [inb EXCEPT ![r].at = "rejected"]
  /\ Only({"inb", "hostCalls"})

\* the session-meta promise resolves
SessionMetaResolves(r) ==
  /\ meta[r] = "pending"
  /\ ret[r] = "true"
  /\ meta' = [meta EXCEPT ![r] = "resolved"]
  /\ Only({"meta"})

\* lines 151-153: the session-meta promise rejects, and the catch logs it
SessionMetaRejects(r) ==
  /\ meta[r] = "pending"
  /\ ret[r] = "true"
  /\ meta' = [meta EXCEPT ![r] = "rejected"]
  /\ Log(r, PlainMessage("wechat: failed updating session meta"))
  /\ Only({"meta", "logs"})

\* ResolveBaseUrl that reads the host's current configuration
ResolveBaseUrlCurrent(r) ==
  /\ inb[r].at = "account"
  /\ LET jsonBotBaseUrl ==
           normalizeBaseUrl(resolveWechatAccount(hostCfg, None).config.jsonBotBaseUrl)
     IN  IF falsy(jsonBotBaseUrl)
           THEN /\ Log(r, PlainMessage("wechat: missing channels.wechat.jsonBotBaseUrl"))
                /\ inb' = [inb EXCEPT ![r].at = "done"]
           ELSE /\ inb' = [inb EXCEPT ![r].at = "dispatch",
                                      ![r].jsonBotBaseUrl = jsonBotBaseUrl[1]]
                /\ UNCHANGED logs
  /\ Only({"inb", "logs"})

\* ResolveBaseUrl that logs a missing base URL and goes on to the dispatch
ResolveBaseUrlLogging(r) ==
  /\ inb[r].at = "account"
  /\ LET jsonBotBaseUrl ==
           normalizeBaseUrl(resolveWechatAccount(cfg[r][1], None).config.jsonBotBaseUrl)
     IN  /\ inb' = [inb EXCEPT ![r].at = "dispatch",
                               ![r].jsonBotBaseUrl = orElse(jsonBotBaseUrl, <<>>)]
         /\ IF falsy(jsonBotBaseUrl)
              THEN Log(r, PlainMessage("wechat: missing channels.wechat.jsonBotBaseUrl"))
              ELSE UNCHANGED logs
  /\ Only({"inb", "logs"})

\* lines 155-160 (the host's route.accountId does not select the configuration)
ResolveBaseUrl(r) ==
  /\ inb[r].at = "account"
  /\ LET jsonBotBaseUrl ==
           normalizeBaseUrl(resolveWechatAccount(cfg[r][1], None).config.jsonBotBaseUrl)
     IN  IF falsy(jsonBotBaseUrl)
           THEN /\ Log(r, PlainMessage("wechat: missing channels.wechat.jsonBotBaseUrl"))
                /\ inb' = [inb EXCEPT ![r].at = "done"]
           ELSE /\ inb' = [inb EXCEPT ![r].at = "dispatch",
                                      ![r].jsonBotBaseUrl = jsonBotBaseUrl[1]]
                /\ UNCHANGED logs
  /\ Only({"inb", "logs"})

\* line 162: the host's dispatch is called and returns its promise
CallDispatch(r) ==
  /\ inb[r].at = "dispatch"
  /\ Called(r, "dispatchReplyWithBufferedBlockDispatcher")
  /\ inb' = [inb EXCEPT ![r].at = "dispatching"]
  /\ Only({"inb", "hostCalls"})

\* line 162: the host's dispatch throws
CallDispatchThrows(r) ==
  /\ inb[r].at = "dispatch"
  /\ Called(r, "dispatchReplyWithBufferedBlockDispatcher")
  /\ inb' = [inb EXCEPT ![r].at = "rejected"]
  /\ Only({"inb", "hostCalls"})

\* A reply payload of the host: text?, mediaUrls?, mediaUrl?
ReplyPayload(text, mediaUrls, mediaUrl) ==
  [text |-> text, mediaUrls |-> mediaUrls, mediaUrl |-> mediaUrl]

\* lines 168-172
mediaUrlsRaw(payload) ==
  IF payload.mediaUrls # None THEN payload.mediaUrls[1]
  ELSE IF ~falsy(payload.mediaUrl) THEN <<payload.mediaUrl[1]>>
  ELSE <<>>

\* lines 173-175: .map(trim).filter(Boolean)
RECURSIVE trimmedNonEmpty(_)
trimmedNonEmpty(urls) ==
  IF Len(urls) = 0 THEN <<>>
  ELSE IF trim(urls[1]) = <<>> THEN trimmedNonEmpty(Tail(urls))
  ELSE <<trim(urls[1])>> \o trimmedNonEmpty(Tail(urls))

\* lines 166-175: the host calls the deliver callback with one payload
Deliver(r, payload) ==
  /\ inb[r].at = "dispatching"
  /\ npayloads[r] < MaxPayloads
  /\ npayloads' = [npayloads EXCEPT ![r] = npayloads[r] + 1]
  /\ inb' = [inb EXCEPT ![r].at = "deliverText",
                        ![r].payload = Some(payload),
                        ![r].text = trim(orElse(payload.text, <<>>)),
                        ![r].mediaUrls = trimmedNonEmpty(mediaUrlsRaw(payload))]
  /\ Only({"inb", "npayloads"})

IssuePost(r, post) ==
  /\ posts' = [posts EXCEPT ![r] = Append(posts[r], post)]
  /\ timers' = [timers EXCEPT ![r] = timers[r] + 1]
  /\ UNCHANGED results

\* postJson resolves to result and, in its finally, clears its timer
SettlePost(r, result) ==
  /\ results' = [results EXCEPT ![r] = Append(results[r], result)]
  /\ timers' = [timers EXCEPT ![r] = timers[r] - 1]
  /\ UNCHANGED posts

\* lines 177-186: the text POST is issued, or skipped for an empty text
DeliverText(r) ==
  /\ inb[r].at = "deliverText"
  /\ IF inb[r].text # <<>>
       THEN /\ IssuePost(r, ReplyPost(inb[r].jsonBotBaseUrl, senderOf(parsed[r][1]),
                                      inb[r].text, "text", TextTimeoutMs))
            /\ inb' = [inb EXCEPT ![r].at = "textPosted"]
       ELSE /\ inb' = [inb EXCEPT ![r].at = "deliverMedia"]
            /\ UNCHANGED <<posts, results, timers>>
  /\ Only({"inb", "posts"})

\* TextPostDone that sends the text again after a result that is not ok
TextPostDoneRetrying(r, outcome) ==
  /\ inb[r].at = "textPosted"
  /\ ret[r] = "true"
  /\ SettlePost(r, postJson(outcome))
  /\ IF postJson(outcome).ok THEN UNCHANGED logs
     ELSE Log(r, FailureMessage("wechat: json_bot /reply failed", postJson(outcome)))
  /\ inb' = [inb EXCEPT ![r].at = IF postJson(outcome).ok THEN "deliverMedia"
                                   ELSE "deliverText"]
  /\ Only({"inb", "posts", "logs"})

\* lines 178-191: postJson resolves; a non-ok result is logged
TextPostDone(r, outcome) ==
  /\ inb[r].at = "textPosted"
  /\ ret[r] = "true"
  /\ SettlePost(r, postJson(outcome))
  /\ IF postJson(outcome).ok THEN UNCHANGED logs
     ELSE Log(r, FailureMessage("wechat: json_bot /reply failed", postJson(outcome)))
  /\ inb' = [inb EXCEPT ![r].at = "deliverMedia"]
  /\ Only({"inb", "posts", "logs"})

\* lines 194-203: the next file POST is issued, or the callback returns
DeliverMedia(r) ==
  /\ inb[r].at = "deliverMedia"
  /\ IF Len(inb[r].mediaUrls) > 0
       THEN /\ IssuePost(r, ReplyPost(inb[r].jsonBotBaseUrl, senderOf(parsed[r][1]),
                                      inb[r].mediaUrls[1], "file", FileTimeoutMs))
            /\ inb' = [inb EXCEPT ![r].at = "filePosted"]
       ELSE /\ inb' = [inb EXCEPT ![r].at = "dispatching", ![r].text = <<>>]
            /\ UNCHANGED <<posts, results, timers>>
  /\ Only({"inb", "posts"})

\* FilePostDone that leaves the loop at the first file POST that is not ok
FilePostDoneBreaking(r, outcome) ==
  /\ inb[r].at = "filePosted"
  /\ ret[r] = "true"
  /\ SettlePost(r, postJson(outcome))
  /\ IF postJson(outcome).ok THEN UNCHANGED logs
     ELSE Log(r, FailureMessage("wechat: json_bot /reply file failed", postJson(outcome)))
  /\ inb' = [inb EXCEPT ![r].at = "deliverMedia",
                        ![r].mediaUrls = IF postJson(outcome).ok THEN Tail(inb[r].mediaUrls)
                                         ELSE <<>>]
  /\ Only({"inb", "posts", "logs"})

\* lines 195-208: postJson resolves; a non-ok result is logged, the loop goes on
FilePostDone(r, outcome) ==
  /\ inb[r].at = "filePosted"
  /\ ret[r] = "true"
  /\ SettlePost(r, postJson(outcome))
  /\ IF postJson(outcome).ok THEN UNCHANGED logs
     ELSE Log(r, FailureMessage("wechat: json_bot /reply file failed", postJson(outcome)))
  /\ inb' = [inb EXCEPT ![r].at = "deliverMedia", ![r].mediaUrls = Tail(inb[r].mediaUrls)]
  /\ Only({"inb", "posts", "logs"})

\* lines 211-213: the host reports a payload it could not deliver
OnError(r) ==
  /\ inb[r].at = "dispatching"
  /\ npayloads[r] < MaxPayloads
  /\ npayloads' = [npayloads EXCEPT ![r] = npayloads[r] + 1]
  /\ Log(r, PlainMessage("wechat: reply failed"))
  /\ Only({"npayloads", "logs"})

\* line 162: the dispatch promise resolves and handleInbound returns
DispatchResolves(r) ==
  /\ inb[r].at = "dispatching"
  /\ ret[r] = "true"
  /\ inb' = [inb EXCEPT ![r].at = "done"]
  /\ Only({"inb"})

\* DispatchRejects of a handler that awaits handleInbound
DispatchRejectsAwaited(r) ==
  /\ inb[r].at = "dispatching"
  /\ ret[r] = "true"
  /\ inb' = [inb EXCEPT ![r].at = "rejected"]
  /\ ret' = [ret EXCEPT ![r] = "rejected: host"]
  /\ Only({"inb", "ret"})

\* line 162: the dispatch promise rejects, and so does handleInbound's
DispatchRejects(r) ==
  /\ inb[r].at = "dispatching"
  /\ ret[r] = "true"
  /\ inb' = [inb EXCEPT ![r].at = "rejected"]
  /\ Only({"inb"})

\* lines 278-280: the catch of the detached promise logs the rejection
CatchInbound(r) ==
  /\ inb[r].at = "rejected"
  /\ ret[r] = "true"
  /\ Log(r, PlainMessage("wechat: inbound processing failed"))
  /\ inb' = [inb EXCEPT ![r].at = "failed"]
  /\ Only({"inb", "logs"})

---------------------------------------------------------------------------
(* wechatPlugin.outbound.sendText and sendMedia (channel.ts 191-261)       *)

\* the host calls sendText({cfg, to, text})
CallSendText(c, to, text) ==
  /\ call.at = "idle"
  /\ call' = [call EXCEPT !.op = "sendText", !.at = "resolve", !.cfg = c, !.to = to,
                          !.text = Some(text)]
  /\ UNCHANGED <<runtime, registered, hostCfg, onboarding, webhookVars, callPosts, callResults, callTimers, sent>>

\* the host calls sendMedia({cfg, to, text, mediaUrl})
CallSendMedia(c, to, text, mediaUrl) ==
  /\ call.at = "idle"
  /\ call' = [call EXCEPT !.op = "sendMedia", !.at = "resolve", !.cfg = c, !.to = to,
                          !.text = text, !.mediaUrl = mediaUrl]
  /\ UNCHANGED <<runtime, registered, hostCfg, onboarding, webhookVars, callPosts, callResults, callTimers, sent>>

Throw(message) == [call EXCEPT !.at = "done", !.outcome = "threw", !.error = message]

Return == [call EXCEPT !.at = "done", !.outcome = "returned", !.chatId = call.sessionName]

IssueCallPost(post) ==
  /\ callPosts' = Append(callPosts, post)
  /\ callTimers' = callTimers + 1
  /\ UNCHANGED callResults

SettleCallPost(result) ==
  /\ callResults' = Append(callResults, result)
  /\ callTimers' = callTimers - 1
  /\ UNCHANGED callPosts

\* lines 192-197 and 219-225: the base URL check and the locals
SendResolve ==
  /\ call.at = "resolve"
  /\ LET baseUrl ==
           normalizeBaseUrl(
             resolveWechatAccount(call.cfg, Some(DEFAULT_ACCOUNT_ID)).config.jsonBotBaseUrl)
     IN  IF falsy(baseUrl)
           THEN call' = Throw(PlainMessage("wechat: missing channels.wechat.jsonBotBaseUrl"))
           ELSE call' = [call EXCEPT
                           !.at = IF call.op = "sendText" THEN "text" ELSE "caption",
                           !.baseUrl = baseUrl[1],
                           !.sessionName = normalizeWechatTarget(call.to),
                           !.caption = IF call.op = "sendText" THEN <<>>
                                       ELSE trim(orElse(call.text, <<>>))]
  /\ UNCHANGED <<runtime, registered, hostCfg, onboarding, webhookVars, callPosts, callResults, callTimers, sent>>

\* sendText, lines 198-206
SendTextPost ==
  /\ call.at = "text"
  /\ IssueCallPost(ReplyPost(call.baseUrl, call.sessionName, call.text[1], "text",
                             TextTimeoutMs))
  /\ call' = [call EXCEPT !.at = "textPosted"]
  /\ UNCHANGED <<runtime, registered, hostCfg, onboarding, webhookVars, sent>>

\* sendText, lines 207-216
SendTextDone(outcome) ==
  /\ call.at = "textPosted"
  /\ SettleCallPost(postJson(outcome))
  /\ call' = IF postJson(outcome).ok THEN Return
             ELSE Throw(FailureMessage("wechat: json_bot /reply failed", postJson(outcome)))
  /\ UNCHANGED <<runtime, registered, hostCfg, onboarding, webhookVars, sent>>

\* sendMedia, lines 226-235: the caption POST is issued, or skipped
SendCaptionPost ==
  /\ call.at = "caption"
  /\ IF call.caption # <<>>
       THEN /\ IssueCallPost(ReplyPost(call.baseUrl, call.sessionName, call.caption, "text",
                                       TextTimeoutMs))
            /\ call' = [call EXCEPT !.at = "captionPosted"]
       ELSE /\ call' = [call EXCEPT !.at = "file"]
            /\ UNCHANGED <<callPosts, callResults, callTimers>>
  /\ UNCHANGED <<runtime, registered, hostCfg, onboarding, webhookVars, sent>>

\* SendCaptionDone that goes on to the file whatever the caption's result
SendCaptionDoneIgnored(outcome) ==
  /\ call.at = "captionPosted"
  /\ SettleCallPost(postJson(outcome))
  /\ call' = [call EXCEPT !.at = "file"]
  /\ UNCHANGED <<runtime, registered, hostCfg, onboarding, webhookVars, sent>>

\* sendMedia, lines 236-241
SendCaptionDone(outcome) ==
  /\ call.at = "captionPosted"
  /\ SettleCallPost(postJson(outcome))
  /\ call' = IF postJson(outcome).ok THEN [call EXCEPT !.at = "file"]
             ELSE Throw(FailureMessage("wechat: json_bot /reply caption failed",
                                       postJson(outcome)))
  /\ UNCHANGED <<runtime, registered, hostCfg, onboarding, webhookVars, sent>>

\* sendMedia, lines 242-250
SendFilePost ==
  /\ call.at = "file"
  /\ IssueCallPost(ReplyPost(call.baseUrl, call.sessionName, call.mediaUrl, "file",
                             FileTimeoutMs))
  /\ call' = [call EXCEPT !.at = "filePosted"]
  /\ UNCHANGED <<runtime, registered, hostCfg, onboarding, webhookVars, sent>>

\* sendMedia, lines 251-260
SendFileDone(outcome) ==
  /\ call.at = "filePosted"
  /\ SettleCallPost(postJson(outcome))
  /\ call' = IF postJson(outcome).ok THEN Return
             ELSE Throw(FailureMessage("wechat: json_bot /reply file failed",
                                       postJson(outcome)))
  /\ UNCHANGED <<runtime, registered, hostCfg, onboarding, webhookVars, sent>>

\* the promise of sendText / sendMedia settles and the host takes what it got
SendSettles ==
  /\ call.at = "done"
  /\ Len(sent) < MaxCalls
  /\ sent' = Append(sent, [call |-> call, posts |-> callPosts, results |-> callResults])
  /\ call' = NoCall
  /\ callPosts' = <<>>
  /\ callResults' = <<>>
  /\ UNCHANGED <<runtime, registered, hostCfg, onboarding, webhookVars, callTimers>>

---------------------------------------------------------------------------
(* wechatOnboardingAdapter (channel.ts 105-157)                            *)

\* the host runs configure on its configuration and persists what it returns
Configure(nextBaseUrl, nextInboundToken) ==
  /\ onboarding' = Onboarding("configure", hostCfg, nextBaseUrl, nextInboundToken,
                              configure(hostCfg, nextBaseUrl, nextInboundToken))
  /\ hostCfg' = configure(hostCfg, nextBaseUrl, nextInboundToken)
  /\ UNCHANGED <<runtime, registered, webhookVars, sendVars>>

\* the host runs disable on its configuration and persists what it returns
Disable ==
  /\ onboarding' = Onboarding("disable", hostCfg, <<>>, None, disable(hostCfg))
  /\ hostCfg' = disable(hostCfg)
  /\ UNCHANGED <<runtime, registered, webhookVars, sendVars>>

---------------------------------------------------------------------------
(* The inputs the specifications draw from                                 *)

Tok1 == <<"k","1">>
Tok2 == <<"k","2">>

Methods == {None, Some(POST), Some(<<"p","o","s","t">>), Some(<<"G","E","T">>)}

Urls ==
  {None, Some(<<>>), Some(WebhookPath), Some(WebhookPath \o <<"?","a","=","1">>),
   Some(WebhookPath \o <<"?">>), Some(WebhookPath \o <<"/">>),
   Some(WebhookPath \o <<"#","a">>), Some(<<"/">>),
   Some(<<"?">> \o WebhookPath), Some(SubSeq(WebhookPath, 1, 8))}

AuthorizationHeaders ==
  { <<>>,                                                  \* no header
    << <<>> >>,                                            \* empty value
    << <<"B","e","a","r","e","r"," ">> \o Tok1 >>,         \* Bearer k1
    << <<" ","B","E","A","R","E","R"," "," ">> \o Tok1 \o <<" ">> >>,
    << <<"B","e","a","r","e","r"," ">> \o Tok2 >>,         \* Bearer k2
    << <<"B","a","s","i","c"," ">> \o Tok1 >>,             \* another scheme
    << <<"B","e","a","r","e","r">> \o Tok1 >>,             \* no space
    << <<"B","e","a","r","e","r"," ">> >>,                 \* no token
    << <<"B","e","a","r","e","r"," ">> \o Tok2,
       <<"B","e","a","r","e","r"," ">> \o Tok1 >> }        \* two values

TokenHeaders ==
  { <<>>, << <<>> >>, <<Tok1>>, << <<" ">> \o Tok1 \o <<" ">> >>, <<Tok2>>,
    <<Tok2, Tok1>> }

InboundTokens == {None, Some(<<>>), Some(<<" ">>), Some(Tok1), Some(<<" ">> \o Tok1 \o <<" ">>)}

BaseUrls ==
  {None, Some(<<>>), Some(<<" ", "\t">>), Some(<<"/">>), Some(<<"h">>), Some(<<"h","/">>),
   Some(<<" ","h","/","/"," ">>), Some(<<"h","\\">>), Some(<<"h","/","p">>)}

ConfigWith(jsonBotBaseUrl, inboundToken) ==
  OpenClawConfig(
    Some(Channels(Some(WechatConfig(None, None, jsonBotBaseUrl, inboundToken)),
                  Some("telegram"))),
    Some("session"))

\* configurations without a wechat entry, or without channels
BareConfigs ==
  {OpenClawConfig(None, None), OpenClawConfig(Some(Channels(None, None)), None)}

Alice == <<"A","l","i","c","e">>
Hi == <<"H","i">>

FieldValues ==
  {None, Some(JsonNullScalar), Some(JsonString(<<>>)), Some(JsonString(<<" ">>)),
   Some(JsonString(<<" ">> \o Alice \o <<" ">>)), Some(JsonNumber(42))}

MessageValues == {None, Some(JsonString(<<"\t">>)), Some(JsonString(Hi))}

ChunkSizes == {1, MaxBytes - 1, MaxBytes, MaxBytes + 1}

U1 == <<"u","1">>
U2 == <<"u","2">>

FetchOk == FetchResponse(200, "OK", Some(""))
FetchServerError == FetchResponse(500, "Internal Server Error", Some("boom"))
FetchNotFound == FetchResponse(404, "Not Found", Some(""))
FetchUnreadable == FetchResponse(502, "Bad Gateway", None)
FetchNetworkError == FetchRejection("TypeError: fetch failed")
FetchAborted == FetchRejection("AbortError: This operation was aborted")

Runtimes == {"runtime"}

\* The inputs of the request-side specification: every request line, header and
\* token combination and every body, with one reply payload and two POST outcomes
RequestInputs ==
  [reqs |-> {"r1"},
   requests |->
     {Request(m, u, <<>>, <<>>) : m \in Methods, u \in Urls}
       \cup {Request(Some(POST), Some(WebhookPath), a, x) :
               a \in AuthorizationHeaders, x \in TokenHeaders},
   configs |-> {ConfigWith(Some(<<"h","/">>), t) : t \in InboundTokens} \cup BareConfigs,
   chunkSizes |-> ChunkSizes,
   bodies |->
     {BlankBody, MalformedBody, JsonBody(JsonNull), JsonBody(JsonTopNumber)}
       \cup {JsonBody(JsonObject(sn, m, None)) : sn \in FieldValues, m \in MessageValues},
   payloads |-> {ReplyPayload(Some(Hi), Some(<<U1>>), None)},
   outcomes |-> {FetchOk, FetchServerError},
   runtimes |-> Runtimes]

\* The inputs of the continuation-side specification: one request line, two
\* bodies, every base URL, several reply payloads and every POST outcome
ContinuationInputs ==
  [reqs |-> {"r1"},
   requests |-> {Request(Some(POST), Some(WebhookPath), <<>>, <<Tok1>>)},
   configs |-> {ConfigWith(b, Some(Tok1)) : b \in BaseUrls} \cup BareConfigs,
   chunkSizes |-> {1},
   bodies |->
     {BlankBody,
      JsonBody(JsonObject(Some(JsonString(<<" ">> \o Alice)), Some(JsonString(Hi)),
                          Some(JsonNumber(1700000000))))},
   payloads |->
     {ReplyPayload(Some(<<" ">> \o Hi), Some(<<<<" ">> \o U1, <<" ">>, U2>>), Some(U1)),
      ReplyPayload(None, None, Some(U2)),
      ReplyPayload(Some(<<" ">>), Some(<<>>), Some(U1)),
      ReplyPayload(Some(Hi), None, Some(<<>>))},
   outcomes |-> {FetchOk, FetchServerError, FetchNotFound, FetchUnreadable,
                 FetchNetworkError, FetchAborted},
   runtimes |-> Runtimes]

---------------------------------------------------------------------------
(* Specifications                                                          *)

WebhookStep(r, I) ==
  \/ \E q \in I.requests : Receive(r, q)
  \/ CheckMethodPath(r)
  \/ GetRuntime(r)
  \/ LoadConfig(r)
  \/ LoadConfigThrows(r)
  \/ AuthCheck(r)
  \/ \E len \in I.chunkSizes : ReadChunk(r, len)
  \/ \E b \in I.bodies : ReadEnd(r, b)
  \/ ReadError(r)
  \/ Validate(r)
  \/ Respond202(r)
  \/ CallHandleInbound(r)
  \/ ReturnTrue(r)
  \/ HostCall(r)
  \/ HostCallThrows(r)
  \/ RecordSessionMeta(r)
  \/ RecordSessionMetaThrows(r)
  \/ SessionMetaResolves(r)
  \/ SessionMetaRejects(r)
  \/ ResolveBaseUrl(r)
  \/ CallDispatch(r)
  \/ CallDispatchThrows(r)
  \/ \E payload \in I.payloads : Deliver(r, payload)
  \/ DeliverText(r)
  \/ \E outcome \in I.outcomes : TextPostDone(r, outcome)
  \/ DeliverMedia(r)
  \/ \E outcome \in I.outcomes : FilePostDone(r, outcome)
  \/ OnError(r)
  \/ DispatchResolves(r)
  \/ DispatchRejects(r)
  \/ CatchInbound(r)

\* src/unnamed/part_000, line 13: the host calls register(api)
Register(I) ==
  \E next \in I.runtimes :
    /\ registered' = Some(next)
    /\ setWechatRuntime(next)

InitWith(I) ==
  /\ runtime = None
  /\ registered = None
  /\ hostCfg \in I.configs
  /\ InitWebhook
  /\ InitSend

NextWith(I) ==
  \/ Register(I)
  \/ \E r \in I.reqs : WebhookStep(r, I)

Init == InitWith(RequestInputs)

Next == NextWith(RequestInputs)

\* the webhook handler under every request, header, token and body
Spec == Init /\ [][Next]_vars

InitContinuation == InitWith(ContinuationInputs)

NextContinuation == NextWith(ContinuationInputs)

\* the webhook handler's detached continuation under every base URL, reply
\* payload and POST outcome
SpecContinuation == InitContinuation /\ [][NextContinuation]_vars

Bob == <<"B","o","b">>

Targets ==
  {Bob, <<"w","x",":">> \o Bob, <<" ","W","e","C","h","a","t",":"," ">> \o Bob \o <<" ">>,
   <<"w","x",":","w","e","c","h","a","t",":">> \o Bob, <<"w","x"," ",":">> \o Bob,
   <<"W","X",":">>}

Texts == {<<>>, <<" ">>, <<" ">> \o Hi}

SendConfigs == {ConfigWith(b, None) : b \in BaseUrls} \cup BareConfigs

FetchOutcomes ==
  {FetchOk, FetchResponse(204, "No Content", Some("")), FetchServerError, FetchNotFound,
   FetchUnreadable, FetchNetworkError, FetchAborted}

InitSending ==
  /\ runtime = None
  /\ registered = None
  /\ hostCfg = OpenClawConfig(None, None)
  /\ InitWebhook
  /\ InitSend

NextSending ==
  \/ \E c \in SendConfigs, to \in Targets, text \in Texts : CallSendText(c, to, text)
  \/ \E c \in SendConfigs, to \in Targets, text \in {None} \cup {Some(t) : t \in Texts} :
       CallSendMedia(c, to, text, U1)
  \/ SendResolve
  \/ SendTextPost
  \/ \E outcome \in FetchOutcomes : SendTextDone(outcome)
  \/ SendCaptionPost
  \/ \E outcome \in FetchOutcomes : SendCaptionDone(outcome)
  \/ SendFilePost
  \/ \E outcome \in FetchOutcomes : SendFileDone(outcome)

\* one sendText or sendMedia call under every configuration, destination, text
\* and POST outcome
SpecSend == InitSending /\ [][NextSending]_vars

SchemePrefixes ==
  {<<"w","e","c","h","a","t",":">>, <<"W","e","C","h","a","t",":">>,
   <<"w","x",":">>, <<"W","X",":">>}

\* destinations: blank, plain, with an inner colon, and themselves prefixed
Destinations ==
  {<<>>, Bob, <<"a",":","b">>, <<"w","x">>, <<"w","x",":">> \o Bob,
   <<"W","e","c","h","a","t",":">> \o Bob}

Paddings == {<<>>, <<"\t"," ">>}

\* destinations as callers write them: prefixed or not, with or without whitespace
\* before, after the prefix, and after
WrittenTargets ==
  {before \o p \o mid \o s \o after :
     p \in SchemePrefixes, s \in Destinations, before \in Paddings, mid \in Paddings,
     after \in Paddings}
  \cup {before \o s \o after : s \in Destinations, before \in Paddings, after \in Paddings}

NextTarget ==
  \/ \E to \in WrittenTargets : CallSendText(ConfigWith(Some(<<"h">>), None), to, Hi)
  \/ SendResolve
  \/ SendTextPost
  \/ \E outcome \in {FetchOk, FetchNotFound} : SendTextDone(outcome)

\* one sendText call under every way of writing its destination
SpecTarget == InitSending /\ [][NextTarget]_vars

\* The inputs of the outbound-side specification: one accepted request with two
\* reply payloads and two POST outcomes
OutboundInputs ==
  [reqs |-> {"r1"},
   requests |-> {Request(Some(POST), Some(WebhookPath), <<>>, <<>>)},
   configs |-> {ConfigWith(Some(<<"h","/">>), None)},
   chunkSizes |-> {1},
   bodies |-> {JsonBody(JsonObject(Some(JsonString(Alice)), Some(JsonString(Hi)), None))},
   payloads |->
     {ReplyPayload(Some(<<" ">> \o Hi), Some(<<<<" ">> \o U1, <<" ">>, U2>>), Some(U1)),
      ReplyPayload(Some(<<" ">>), None, Some(U2))},
   outcomes |-> {FetchOk, FetchServerError},
   runtimes |-> Runtimes]

InitOutbound == InitWith(OutboundInputs)

\* the plugin's two outbound paths side by side: a webhook request with its
\* replies, and a sendText or sendMedia call
NextOutbound ==
  \/ NextWith(OutboundInputs)
  \/ \E text \in {<<" ">>, Hi} : CallSendText(hostCfg, Bob, text)
  \/ \E text \in {None, Some(Hi)} : CallSendMedia(hostCfg, Bob, text, U1)
  \/ SendResolve
  \/ SendTextPost
  \/ \E outcome \in OutboundInputs.outcomes : SendTextDone(outcome)
  \/ SendCaptionPost
  \/ \E outcome \in OutboundInputs.outcomes : SendCaptionDone(outcome)
  \/ SendFilePost
  \/ \E outcome \in OutboundInputs.outcomes : SendFileDone(outcome)

SpecOutbound == InitOutbound /\ [][NextOutbound]_vars

\* The inputs of the concurrent specification: two requests, from two senders or
\* the same one, one reply payload and two POST outcomes
ConcurrentInputs ==
  [reqs |-> Reqs,
   requests |-> {Request(Some(POST), Some(WebhookPath), <<>>, <<>>)},
   configs |-> {ConfigWith(Some(<<"h","/">>), None)},
   chunkSizes |-> {1},
   bodies |->
     {JsonBody(JsonObject(Some(JsonString(Alice)), Some(JsonString(Hi)), None)),
      JsonBody(JsonObject(Some(JsonString(<<" ">> \o Bob \o <<" ">>)), Some(JsonString(Hi)),
                          None))},
   payloads |-> {ReplyPayload(Some(Hi), None, None)},
   outcomes |-> {FetchOk, FetchAborted},
   runtimes |-> Runtimes]

\* r is inside a synchronous run of its handler, of handleInbound or of the delivery
\* callback: JavaScript runs it to its next await before anything else
Running(r) ==
  \/ pc[r] \in {"entry", "getRuntime", "loadConfig", "auth", "ack", "spawn"}
  \/ inb[r].at \in {"host", "meta", "account", "dispatch", "deliverText", "deliverMedia"}
  \/ pc[r] = "return"

\* nothing but r may be running
Free(r) == \A o \in Reqs \ {r} : ~Running(o)

InitConcurrent == InitWith(ConcurrentInputs)

\* one step of r's handler or of its continuation, when nothing else is running
ConcurrentStep(r) ==
  \/ Free("none") /\ \E q \in ConcurrentInputs.requests : Receive(r, q)
  \/ Free(r) /\ CheckMethodPath(r)
  \/ Free(r) /\ GetRuntime(r)
  \/ Free(r) /\ LoadConfig(r)
  \/ Free(r) /\ AuthCheck(r)
  \/ Free(r) /\ ReadChunk(r, 1)
  \/ Free(r) /\ \E b \in ConcurrentInputs.bodies : ReadEnd(r, b)
  \/ Free(r) /\ Validate(r)
  \/ Free(r) /\ Respond202(r)
  \/ Free(r) /\ CallHandleInbound(r)
  \/ Free(r) /\ ReturnTrue(r)
  \/ Free(r) /\ HostCall(r)
  \/ Free(r) /\ RecordSessionMeta(r)
  \/ Free(r) /\ ResolveBaseUrl(r)
  \/ Free(r) /\ CallDispatch(r)
  \/ Free(r) /\ \E payload \in ConcurrentInputs.payloads : Deliver(r, payload)
  \/ Free(r) /\ DeliverText(r)
  \/ Free(r) /\ \E outcome \in ConcurrentInputs.outcomes : TextPostDone(r, outcome)
  \/ Free(r) /\ DeliverMedia(r)
  \/ Free(r) /\ DispatchResolves(r)
  \/ Free(r) /\ DispatchRejects(r)
  \/ Free(r) /\ CatchInbound(r)
  \/ Free(r) /\ HostCallThrows(r)

\* two webhook requests interleaved at their awaits, while the host registers the
\* plugin and reconfigures the account; of the failures, a host call that throws,
\* a POST that is not ok and a dispatch that rejects
NextConcurrent ==
  \/ Free("none") /\ Register(ConcurrentInputs)
  \/ Free("none") /\ Configure(<<"g">>, None)
  \/ \E r \in Reqs : ConcurrentStep(r)

SpecConcurrent == InitConcurrent /\ [][NextConcurrent]_vars

\* the prompter's answers: a base URL that passed `validate` (not blank), and a
\* token or nothing
BaseUrlAnswers ==
  {<<"h">>, <<"h","/">>, <<" ","h","/","/"," ">>, <<"h","\\">>, <<"/">>, <<"g","/","p">>}

TokenAnswers == {None, Some(<<>>), Some(<<" ">>), Some(Tok1), Some(<<" ">> \o Tok2 \o <<" ">>)}

OnboardingConfigs ==
  BareConfigs
    \cup {OpenClawConfig(
            Some(Channels(Some(WechatConfig(e, Some("work"), Some(<<"h">>), Some(Tok1))),
                          Some("telegram"))),
            Some("session")) : e \in {None, Some(TRUE), Some(FALSE)}}

InitOnboarding ==
  /\ runtime = None
  /\ registered = None
  /\ hostCfg \in OnboardingConfigs
  /\ InitWebhook
  /\ InitSend

NextOnboarding ==
  \/ \E b \in BaseUrlAnswers, t \in TokenAnswers : Configure(b, t)
  \/ Disable

\* onboarding calls in any order, each on the configuration the last one left
SpecOnboarding == InitOnboarding /\ [][NextOnboarding]_vars

\* The inputs of the registration-side specification: two requests, handled
\* concurrently, and two runtimes the host may register, in any order and again
RegistrationInputs ==
  [reqs |-> Reqs,
   requests |-> {Request(Some(POST), Some(WebhookPath), <<>>, <<>>),
                 Request(Some(<<"G","E","T">>), Some(WebhookPath), <<>>, <<>>)},
   configs |-> {ConfigWith(Some(<<"h">>), None)},
   chunkSizes |-> {1},
   bodies |-> {JsonBody(JsonObject(Some(JsonString(Alice)), Some(JsonString(Hi)), None))},
   payloads |-> {ReplyPayload(Some(Hi), None, Some(U1))},
   outcomes |-> {FetchOk},
   runtimes |-> {"runtimeA", "runtimeB"}]

InitRegistration == InitWith(RegistrationInputs)

NextRegistration == NextWith(RegistrationInputs)

\* registrations and webhook requests in any order
SpecRegistration == InitRegistration /\ [][NextRegistration]_vars

---------------------------------------------------------------------------
(* Requests and outbound calls under configurations the onboarding adapter  *)
(* has enabled and disabled                                                 *)

EnabledInputs ==
  [reqs |-> Reqs,
   requests |-> {Request(Some(POST), Some(WebhookPath), <<>>, <<Tok1>>),
                 Request(Some(POST), Some(WebhookPath), <<>>, <<>>)},
   configs |-> {ConfigWith(Some(<<"h">>), Some(Tok1)), ConfigWith(None, None)},
   chunkSizes |-> {1},
   bodies |-> {BlankBody,
               JsonBody(JsonObject(Some(JsonString(Alice)), Some(JsonString(Hi)), None))},
   payloads |-> {ReplyPayload(Some(Hi), None, Some(U1))},
   outcomes |-> {FetchOk, FetchServerError},
   runtimes |-> Runtimes]

\* the handler of request r has returned or rejected and its continuation, if it
\* was started, has ended
Quiet(r) == pc[r] = "done" /\ inb[r].at \in {"none", "done", "failed"}

\* no other request is between its arrival and its end
Alone(r) == \A o \in Reqs \ {r} : pc[o] = "idle" \/ Quiet(o)

\* no outbound call has been made
NoCalls == call.at = "idle" /\ sent = <<>>

\* no request has arrived
NoRequests == \A r \in Reqs : pc[r] = "idle"

InitEnabled == InitWith(EnabledInputs)

EnabledStep(r) ==
  \/ NoCalls /\ Alone(r) /\ \E q \in EnabledInputs.requests : Receive(r, q)
  \/ Alone(r) /\ CheckMethodPath(r)
  \/ Alone(r) /\ GetRuntime(r)
  \/ Alone(r) /\ LoadConfig(r)
  \/ Alone(r) /\ AuthCheck(r)
  \/ Alone(r) /\ ReadChunk(r, 1)
  \/ Alone(r) /\ \E b \in EnabledInputs.bodies : ReadEnd(r, b)
  \/ Alone(r) /\ Validate(r)
  \/ Alone(r) /\ Respond202(r)
  \/ Alone(r) /\ CallHandleInbound(r)
  \/ Alone(r) /\ ReturnTrue(r)
  \/ Alone(r) /\ HostCall(r)
  \/ Alone(r) /\ RecordSessionMeta(r)
  \/ Alone(r) /\ ResolveBaseUrl(r)
  \/ Alone(r) /\ CallDispatch(r)
  \/ Alone(r) /\ \E payload \in EnabledInputs.payloads : Deliver(r, payload)
  \/ Alone(r) /\ DeliverText(r)
  \/ Alone(r) /\ \E outcome \in EnabledInputs.outcomes : TextPostDone(r, outcome)
  \/ Alone(r) /\ DeliverMedia(r)
  \/ Alone(r) /\ \E outcome \in EnabledInputs.outcomes : FilePostDone(r, outcome)
  \/ Alone(r) /\ DispatchResolves(r)

NextEnabled ==
  \/ Alone("none") /\ call.at = "idle" /\ Register(EnabledInputs)
  \/ Alone("none") /\ call.at = "idle" /\ Configure(<<"h", "/">>, Some(Tok1))
  \/ Alone("none") /\ call.at = "idle" /\ Disable
  \/ \E r \in Reqs : EnabledStep(r)
  \/ NoRequests /\ CallSendText(hostCfg, Bob, Hi)
  \/ NoRequests /\ CallSendMedia(hostCfg, Bob, Some(Hi), U1)
  \/ SendResolve
  \/ SendTextPost
  \/ \E outcome \in EnabledInputs.outcomes : SendTextDone(outcome)
  \/ SendCaptionPost
  \/ \E outcome \in EnabledInputs.outcomes : SendCaptionDone(outcome)
  \/ SendFilePost
  \/ \E outcome \in EnabledInputs.outcomes : SendFileDone(outcome)
  \/ SendSettles

\* two requests one after the other, or a series of outbound calls, while the
\* host configures and disables the channel in between
SpecEnabled == InitEnabled /\ [][NextEnabled]_vars

---------------------------------------------------------------------------
(* Claims about the webhook's request side (Spec)                          *)

\* the inbound token of a configuration, trimmed; empty when none is set
ConfiguredInboundToken(c) ==
  IF c.channels = None \/ c.channels[1].wechat = None THEN <<>>
  ELSE trim(orElse(c.channels[1].wechat[1].inboundToken, <<>>))

\* the bearer token of the Authorization header and the value of the
\* X-OpenClaw-Token header, as far as the request carries them, each trimmed
BearerOf(r) == parseBearerToken(req[r].headers.authorization)
FallbackOf(r) == headerValue(req[r].headers.xOpenclawToken)
CarriedTokens(r) == {trim(t[1]) : t \in {BearerOf(r), FallbackOf(r)} \ {None}}

\* request r is past the auth check of lines 242-254
AuthDecided(r) == cfg[r] # None /\ pc[r] # "auth"

Unauthorized401 ==
  [headersSent |-> TRUE, statusCode |-> 401, ok |-> FALSE, error |-> "unauthorized",
   ends |-> 1]

\* nothing downstream of the auth check has happened for request r
NothingDownstream(r) ==
  /\ size[r] = 0 /\ nchunks[r] = 0 /\ body[r] = None /\ parsed[r] = None
  /\ inb[r] = NotCalled /\ meta[r] = "none"
  /\ hostCalls[r] = <<>> /\ posts[r] = <<>> /\ logs[r] = <<>>

\* C1: with a non-empty (trimmed) inboundToken configured, a request that carries
\* no token, or only tokens that differ from it after trimming, is answered
\* 401 {ok:false,error:"unauthorized"}, the handler returns true, and the body is
\* never read, handleInbound never called and no POST issued for it.
C1_UnauthorizedStops ==
  \A r \in Reqs :
    ( /\ AuthDecided(r)
      /\ ConfiguredInboundToken(cfg[r][1]) # <<>>
      /\ ConfiguredInboundToken(cfg[r][1]) \notin CarriedTokens(r) )
    => /\ res[r] = Unauthorized401
       /\ ret[r] = "true"
       /\ pc[r] = "done"
       /\ NothingDownstream(r)

\* a request with a wrong X-OpenClaw-Token and no bearer token has been answered 401
C1_Witness ==
  \E r \in Reqs :
    /\ AuthDecided(r)
    /\ ConfiguredInboundToken(cfg[r][1]) = Tok1
    /\ BearerOf(r) = None /\ FallbackOf(r) = Some(Tok2)
    /\ res[r].statusCode = 401 /\ ret[r] = "true"

\* C2 as stated: with an inboundToken configured, a request carrying the matching
\* token in either header, whatever the other header holds, is never answered 401;
\* with none configured no request is answered 401.
C2_EitherHeaderPasses ==
  \A r \in Reqs :
    ( /\ AuthDecided(r)
      /\ \/ ConfiguredInboundToken(cfg[r][1]) = <<>>
         \/ ConfiguredInboundToken(cfg[r][1]) \in CarriedTokens(r) )
    => res[r].statusCode # 401

\* C2 as amended: the matching token passes as the bearer token of Authorization,
\* or as X-OpenClaw-Token when Authorization carries no bearer token; with no
\* inboundToken configured no request is answered 401.
C2_BearerOrFallbackPasses ==
  \A r \in Reqs :
    ( /\ AuthDecided(r)
      /\ \/ ConfiguredInboundToken(cfg[r][1]) = <<>>
         \/ /\ BearerOf(r) # None
            /\ trim(BearerOf(r)[1]) = ConfiguredInboundToken(cfg[r][1])
         \/ /\ BearerOf(r) = None
            /\ FallbackOf(r) # None
            /\ trim(FallbackOf(r)[1]) = ConfiguredInboundToken(cfg[r][1]) )
    => res[r].statusCode # 401

\* a padded X-OpenClaw-Token matching a padded inboundToken, with no bearer
\* token, has passed the auth check and the body is being read
C2_Witness ==
  \E r \in Reqs :
    /\ AuthDecided(r)
    /\ cfg[r][1] = ConfigWith(Some(<<"h","/">>), Some(<<" ">> \o Tok1 \o <<" ">>))
    /\ BearerOf(r) = None
    /\ req[r].headers.xOpenclawToken = << <<" ">> \o Tok1 \o <<" ">> >>
    /\ pc[r] = "body"

\* the method is POST in any letter case
IsPost(q) == q.method # None /\ toUpperCase(q.method[1]) = POST

\* the URL's path: the URL up to its query string
PathOf(q) == IF q.url = None THEN <<>> ELSE splitFirst(q.url[1], "?")

\* C6: a request whose method is not POST (in any case) or whose path, the query
\* string removed, is not exactly /webhook/wechat makes the handler return false
\* without writing a response, reading the runtime holder or the configuration, or
\* reading the body; a POST to exactly /webhook/wechat never returns false.
C6_NotHandled ==
  \A r \in Reqs :
    pc[r] \notin {"idle", "entry"} =>
      IF IsPost(req[r]) /\ PathOf(req[r]) = WebhookPath
        THEN ret[r] # "false"
        ELSE /\ ret[r] = "false"
             /\ pc[r] = "done"
             /\ res[r] = NoResponse
             /\ cfg[r] = None
             /\ NothingDownstream(r)

\* a lower-case post to the exact path is past the method and path check, and a
\* POST to a longer path has been declined before the runtime was ever set
C6_Witness ==
  \E r \in Reqs :
    /\ req[r] = Request(Some(<<"p","o","s","t">>), Some(WebhookPath \o <<"?","a","=","1">>),
                        <<>>, <<>>)
    /\ pc[r] = "getRuntime"

\* every character of s is whitespace (so is the empty string)
Blank(s) == \A i \in 1..Len(s) : s[i] \in Whitespace

\* field f of the parsed body is absent, null, or a string that is blank
FieldMissing(v, f) ==
  \/ v.t # "object"
  \/ v[f] = None
  \/ v[f][1].t = "null"
  \/ v[f][1].t = "string" /\ Blank(v[f][1].s)

MissingFields400 ==
  [headersSent |-> TRUE, statusCode |-> 400, ok |-> FALSE,
   error |-> "missing sender or message", ends |-> 1]

\* handleInbound was never called for request r, nor any host call or POST made
NoDispatch(r) ==
  /\ inb[r] = NotCalled /\ meta[r] = "none"
  /\ hostCalls[r] = <<>> /\ posts[r] = <<>> /\ logs[r] = <<>>

\* C3 as stated: once the auth check is passed and the body is parsed, a sender or
\* message that is absent or empty after trimming is answered 400 "missing sender
\* or message", the handler returns true and nothing is dispatched.
C3_MissingFieldsAre400 ==
  \A r \in Reqs :
    ( /\ parsed[r] # None
      /\ pc[r] # "validate"
      /\ FieldMissing(parsed[r][1], "sender") \/ FieldMissing(parsed[r][1], "message") )
    => /\ res[r] = MissingFields400
       /\ ret[r] = "true"
       /\ NoDispatch(r)

PayloadTooLarge400 ==
  [headersSent |-> TRUE, statusCode |-> 400, ok |-> FALSE,
   error |-> "Error: payload too large", ends |-> 1]

\* C7: once the bytes received exceed 262144 the read has failed: no JSON parsing,
\* a 400, no dispatch; the cap rejects no body of at most 262144 bytes; an empty
\* or whitespace-only body parses to the empty object, which is answered 400 for
\* its missing sender and message.
C7_BodyCap ==
  \A r \in Reqs :
    /\ size[r] > MaxBytes =>
         /\ res[r] = PayloadTooLarge400
         /\ ret[r] = "true" /\ pc[r] = "done"
         /\ body[r] = None /\ parsed[r] = None
         /\ NoDispatch(r)
    /\ res[r].error = "Error: payload too large" => size[r] > MaxBytes
    /\ body[r] = Some(BlankBody) =>
         /\ parsed[r] = Some(EmptyObject)
         /\ \/ pc[r] = "validate" /\ ~res[r].headersSent
            \/ res[r] = MissingFields400 /\ ret[r] = "true" /\ pc[r] = "done"
         /\ NoDispatch(r)

\* a second chunk has taken the count from exactly the cap to one byte over it
C7_Witness ==
  \E r \in Reqs :
    /\ nchunks[r] = 2 /\ size[r] = MaxBytes + 1
    /\ res[r] = PayloadTooLarge400

---------------------------------------------------------------------------
(* Claims about the webhook's detached continuation (SpecContinuation)     *)

Accepted202 ==
  [headersSent |-> TRUE, statusCode |-> 202, ok |-> TRUE, error |-> "", ends |-> 1]

\* C4: for a valid request the 202 {ok:true} is written before the first host
\* routing/session/envelope/dispatch call and before any outbound POST, and the
\* handler can return true while handleInbound is suspended on the dispatch or on
\* a POST: its return waits for neither.
C4_AckBeforeDispatch ==
  \A r \in Reqs :
    /\ ( /\ parsed[r] # None
         /\ pc[r] \notin {"validate", "ack"}
         /\ ~FieldMissing(parsed[r][1], "sender")
         /\ ~FieldMissing(parsed[r][1], "message") )
       => res[r] = Accepted202
    /\ ( \/ inb[r] # NotCalled \/ meta[r] # "none" \/ hostCalls[r] # <<>>
         \/ posts[r] # <<>> \/ logs[r] # <<>> )
       => res[r] = Accepted202
    /\ ( pc[r] = "return" /\ inb[r].at \in {"dispatching", "textPosted", "filePosted"} )
       => ENABLED ReturnTrue(r)

\* the handler has returned true while a POST of its request is still in flight
C4_Witness ==
  \E r \in Reqs :
    /\ res[r] = Accepted202 /\ ret[r] = "true"
    /\ timers[r] = 1 /\ Len(posts[r]) = Len(results[r]) + 1

\* the number of logged messages of request r that begin with what
Logged(r, what) == Cardinality({i \in 1..Len(logs[r]) : logs[r][i].what = what})

\* the completed POSTs of request r of the given type whose result is not ok
FailedPosts(r, type) ==
  Cardinality({i \in 1..Len(results[r]) : posts[r][i].type = type /\ ~results[r][i].ok})

C5_State ==
  \A r \in Reqs :
    res[r].statusCode = 202 =>
      /\ res[r] = Accepted202
      /\ ret[r] \in {"pending", "true"}
      /\ Logged(r, "wechat: json_bot /reply failed") = FailedPosts(r, "text")
      /\ Logged(r, "wechat: json_bot /reply file failed") = FailedPosts(r, "file")
      /\ Logged(r, "wechat: failed updating session meta") =
           (IF meta[r] = "rejected" THEN 1 ELSE 0)
      /\ Logged(r, "wechat: inbound processing failed") =
           (IF inb[r].at = "failed" THEN 1 ELSE 0)
      /\ inb[r].at = "rejected" /\ ret[r] = "true" => ENABLED CatchInbound(r)

C5_Step ==
  \A r \in Reqs :
    /\ res[r].statusCode = 202 => res'[r] = res[r]
    /\ ret[r] = "true" => ret'[r] = "true"

\* C5: once the 202 is sent, a failure of the continuation (a host call throwing,
\* the dispatch or the session-meta promise rejecting, a POST not ok) leaves the
\* response as sent, never rejects the handler's promise nor takes back its true,
\* and is logged once.
C5_FailuresOnlyLogged == []C5_State /\ [][C5_Step]_vars

\* after the 202 and the return of true: the session-meta promise rejected, a POST
\* failed and the dispatch rejected, each logged
C5_Witness ==
  \E r \in Reqs :
    /\ res[r] = Accepted202 /\ ret[r] = "true"
    /\ meta[r] = "rejected" /\ inb[r].at = "failed"
    /\ FailedPosts(r, "text") + FailedPosts(r, "file") > 0
    /\ Len(logs[r]) >= 3

---------------------------------------------------------------------------
(* Claims about sendText and sendMedia (SpecSend)                          *)

\* channels.wechat.jsonBotBaseUrl of a configuration, None when absent
BaseUrlOf(c) ==
  IF c.channels = None \/ c.channels[1].wechat = None THEN None
  ELSE c.channels[1].wechat[1].jsonBotBaseUrl

BaseUrlMissing(c) == BaseUrlOf(c) = None \/ Blank(BaseUrlOf(c)[1])

MissingBaseUrlError == PlainMessage("wechat: missing channels.wechat.jsonBotBaseUrl")

\* C8: sendText and sendMedia with channels.wechat.jsonBotBaseUrl absent, empty or
\* whitespace-only fail with the error naming channels.wechat.jsonBotBaseUrl, and
\* issue no POST at any point of the call.
C8_NoBaseUrlNoPost ==
  (call.op # "none" /\ BaseUrlMissing(call.cfg)) =>
    /\ callPosts = <<>> /\ callTimers = 0
    /\ call.at \in {"resolve", "done"}
    /\ call.at = "done" => call.outcome = "threw" /\ call.error = MissingBaseUrlError

\* sendMedia has thrown on a whitespace-only base URL
C8_Witness ==
  /\ call.op = "sendMedia"
  /\ BaseUrlOf(call.cfg) = Some(<<" ", "\t">>)
  /\ call.outcome = "threw" /\ call.error = MissingBaseUrlError

\* the sendMedia call has a caption that is non-empty after trimming
HasCaption == call.text # None /\ ~Blank(call.text[1])

PostTypes == [i \in 1..Len(callPosts) |-> callPosts[i].type]

IsPrefix(s, t) == Len(s) <= Len(t) /\ s = SubSeq(t, 1, Len(s))

\* the call got past its base URL check
PastBaseUrlCheck ==
  call.at # "resolve" /\ ~(call.outcome = "threw" /\ call.error = MissingBaseUrlError)

\* C9: sendMedia with a non-empty caption issues the caption POST (text), then,
\* only once that one is ok, the file POST (file); a caption POST that is not ok
\* makes the call throw with no file POST; a file POST that is not ok after an ok
\* caption makes it throw the file failure; with an empty caption the file POST is
\* the only one; a result is returned only when every POST issued was ok.
C9_CaptionThenFile ==
  (call.op = "sendMedia" /\ PastBaseUrlCheck) =>
    /\ IsPrefix(PostTypes, IF HasCaption THEN <<"text", "file">> ELSE <<"file">>)
    /\ Len(callResults) <= Len(callPosts) /\ Len(callPosts) <= Len(callResults) + 1
    /\ \A i \in 1..Len(callPosts) : \A j \in 1..(i - 1) :
         j <= Len(callResults) /\ callResults[j].ok
    /\ \A i \in 1..Len(callResults) :
         ~callResults[i].ok =>
           /\ call.outcome = "threw"
           /\ Len(callPosts) = i
           /\ call.error =
                FailureMessage(IF callPosts[i].type = "text"
                                 THEN "wechat: json_bot /reply caption failed"
                                 ELSE "wechat: json_bot /reply file failed",
                               callResults[i])
    /\ call.outcome = "returned" =>
         /\ Len(callPosts) = (IF HasCaption THEN 2 ELSE 1)
         /\ Len(callResults) = Len(callPosts)
         /\ \A i \in 1..Len(callResults) : callResults[i].ok
    /\ (call.at = "done" /\ ~HasCaption) => Len(callPosts) = 1

\* the caption POST was ok, the file POST was not, and the call threw the file
\* failure
C9_Witness ==
  /\ call.op = "sendMedia" /\ HasCaption
  /\ Len(callResults) = 2 /\ callResults[1].ok /\ ~callResults[2].ok
  /\ call.outcome = "threw"
  /\ call.error.what = "wechat: json_bot /reply file failed"

RECURSIVE withoutTrailingSlash(_)
withoutTrailingSlash(s) ==
  IF Len(s) > 0 /\ s[Len(s)] = "/" THEN withoutTrailingSlash(SubSeq(s, 1, Len(s) - 1))
  ELSE s

\* what C10 says of a finished sendText call whose base URL is base
SendTextPostsTo(base) ==
  /\ Len(callPosts) = 1 /\ Len(callResults) = 1
  /\ callPosts[1].url = base \o ReplySuffix
  /\ callPosts[1].session_name = normalizeWechatTarget(call.to)
  /\ callPosts[1].content = call.text[1]
  /\ callPosts[1].type = "text"
  /\ call.outcome = "returned" <=> callResults[1].ok
  /\ call.outcome = "returned" => call.chatId = normalizeWechatTarget(call.to)
  /\ call.outcome # "returned" =>
       /\ call.outcome = "threw"
       /\ call.error.status = callResults[1].status
       /\ call.error.err = orElse(callResults[1].error, "")

\* C10 as stated: sendText with a configured base URL issues exactly one POST, to
\* the base URL with its trailing slashes stripped followed by /reply, with payload
\* {session_name: normalized destination, content: text, type: "text"}; it returns
\* (chatId the normalized destination) iff that POST is ok and else throws an error
\* carrying the status and error text.
C10_PostsToBaseUrl ==
  (call.op = "sendText" /\ call.at = "done" /\ ~BaseUrlMissing(call.cfg)) =>
    SendTextPostsTo(withoutTrailingSlash(BaseUrlOf(call.cfg)[1]))

\* the base URL trimmed, up to its last character that is neither / nor \
TrimmedUpToLastNonSlash(raw) ==
  LET t == trim(raw)
      keep == {i \in 1..Len(t) : t[i] \notin {"/", "\\"}}
  IN  IF keep = {} THEN <<>>
      ELSE SubSeq(t, 1, CHOOSE i \in keep : \A j \in keep : j <= i)

\* C10 as amended: the base URL is first trimmed of surrounding whitespace and then
\* loses every trailing / and \; when something is left, sendText issues exactly
\* one POST, to that followed by /reply, with the payload and the outcome as
\* stated.
C10_PostsToNormalizedBaseUrl ==
  ( /\ call.op = "sendText" /\ call.at = "done"
    /\ BaseUrlOf(call.cfg) # None
    /\ TrimmedUpToLastNonSlash(BaseUrlOf(call.cfg)[1]) # <<>> )
  => SendTextPostsTo(TrimmedUpToLastNonSlash(BaseUrlOf(call.cfg)[1]))

\* sendText to " WeChat: Bob " under the base URL " h// " has posted to h/reply for
\* Bob and returned
C10_Witness ==
  /\ call.op = "sendText" /\ call.outcome = "returned"
  /\ BaseUrlOf(call.cfg) = Some(<<" ","h","/","/"," ">>)
  /\ call.to = <<" ","W","e","C","h","a","t",":"," ">> \o Bob \o <<" ">>
  /\ callPosts = <<ReplyPost(<<"h">>, Bob, call.text[1], "text", TextTimeoutMs)>>
  /\ call.chatId = Bob

---------------------------------------------------------------------------
(* Claims about the delivery callback (SpecContinuation)                   *)

InCallback(r) == inb[r].at \in {"deliverText", "textPosted", "deliverMedia", "filePosted"}

\* the media URLs of a reply payload as the callback receives them
PayloadUrls(payload) ==
  IF payload.mediaUrls # None THEN payload.mediaUrls[1]
  ELSE IF payload.mediaUrl # None /\ payload.mediaUrl[1] # <<>> THEN <<payload.mediaUrl[1]>>
  ELSE <<>>

NonBlank(u) == ~Blank(u)

FilePostsFor(r, urls) ==
  [i \in 1..Len(urls) |->
     ReplyPost(inb[r].jsonBotBaseUrl, trim(stringOf(parsed[r][1].sender)), trim(urls[i]),
               "file", FileTimeoutMs)]

\* the POSTs one callback invocation owes for its payload: the text, if it is not
\* blank, then one file POST per non-blank media URL, in list order
Plan(r, payload) ==
  (IF payload.text # None /\ ~Blank(payload.text[1])
     THEN <<ReplyPost(inb[r].jsonBotBaseUrl, trim(stringOf(parsed[r][1].sender)),
                      trim(payload.text[1]), "text", TextTimeoutMs)>>
     ELSE <<>>)
  \o FilePostsFor(r, SelectSeq(PayloadUrls(payload), NonBlank))

\* the POSTs the running callback invocation has still to issue
Pending(r) ==
  CASE inb[r].at = "deliverText" ->
         (IF inb[r].text # <<>>
            THEN <<ReplyPost(inb[r].jsonBotBaseUrl, trim(stringOf(parsed[r][1].sender)),
                             inb[r].text, "text", TextTimeoutMs)>>
            ELSE <<>>) \o FilePostsFor(r, inb[r].mediaUrls)
    [] inb[r].at \in {"textPosted", "deliverMedia"} -> FilePostsFor(r, inb[r].mediaUrls)
    [] inb[r].at = "filePosted" -> FilePostsFor(r, Tail(inb[r].mediaUrls))
    [] OTHER -> <<>>

C11_State ==
  \A r \in Reqs :
    /\ Len(posts[r]) - Len(results[r]) = (IF inb[r].at \in {"textPosted", "filePosted"}
                                            THEN 1 ELSE 0)
    /\ timers[r] = Len(posts[r]) - Len(results[r])

C11_Step ==
  \A r \in Reqs :
    \* the callback starts owing exactly the plan of its payload
    /\ (~InCallback(r) /\ InCallback(r)') =>
         /\ posts[r]' = posts[r]
         /\ Pending(r)' = Plan(r, inb[r].payload[1])'
    \* every step of it issues the next POST owed or none, whatever the results
    /\ (InCallback(r) /\ InCallback(r)') =>
         posts[r]' \o Pending(r)' = posts[r] \o Pending(r)
    \* it returns to the dispatcher, and only once nothing is owed
    /\ (InCallback(r) /\ ~InCallback(r)') =>
         /\ Pending(r) = <<>> /\ posts[r]' = posts[r]
         /\ inb[r].at' = "dispatching"
    \* a result that is not ok adds one log entry and nothing else
    /\ Len(results[r]') > Len(results[r]) =>
         /\ InCallback(r) /\ InCallback(r)'
         /\ Len(results[r]') = Len(results[r]) + 1
         /\ IF results[r]'[Len(results[r]')].ok THEN logs[r]' = logs[r]
            ELSE /\ Len(logs[r]') = Len(logs[r]) + 1
                 /\ logs[r]'[Len(logs[r]')] =
                      FailureMessage(IF posts[r][Len(posts[r])].type = "text"
                                       THEN "wechat: json_bot /reply failed"
                                       ELSE "wechat: json_bot /reply file failed",
                                     results[r]'[Len(results[r]')])
    /\ posts[r]' # posts[r] => InCallback(r)'

\* C11: each invocation of the delivery callback issues the text POST (when the
\* trimmed text is non-empty) before any file POST, then one file POST per
\* non-empty media URL in list order, each only after the previous POST has
\* completed; a result that is not ok is only logged, the callback does not throw,
\* and the POSTs still owed for the payload are issued all the same.
C11_TextThenEveryFile == []C11_State /\ [][C11_Step]_vars

\* text and the first file POST both failed, and the second file POST was issued
C11_Witness ==
  /\ Len(posts["r1"]) = 3 /\ Len(results["r1"]) = 2
  /\ ~results["r1"][1].ok /\ ~results["r1"][2].ok
  /\ [i \in 1..3 |-> posts["r1"][i].type] = <<"text", "file", "file">>
  /\ posts["r1"][3].content = U2
  /\ Len(logs["r1"]) >= 2

---------------------------------------------------------------------------
(* Claims about postJson (SpecSend)                                        *)

Is2xx(status) == status \in 200..299

\* what C12 says postJson resolves to for one outcome of the request
ResolvesAsStated(outcome, result) ==
  /\ result.ok <=> (outcome.kind = "response" /\ Is2xx(outcome.status))
  /\ (outcome.kind = "response" /\ ~Is2xx(outcome.status)) =>
       /\ result.status = Some(outcome.status)
       /\ result.error =
            (IF outcome.body # None /\ outcome.body[1] # "" THEN outcome.body
             ELSE Some(outcome.statusText))
  /\ outcome.kind = "rejection" =>
       /\ result.status = None
       /\ result.error = Some(outcome.err)

\* C12: postJson never throws: for every outcome of the request it resolves to a
\* result, ok exactly for a 2xx response; a non-2xx response gives the status and
\* the body text or else the status text as error; a network failure or an abort
\* gives the stringified error and no status; and its timer is cleared on every
\* exit, so none is armed once the call that used it has returned or thrown.
C12_PostJsonResolves ==
  /\ \A outcome \in FetchOutcomes : ResolvesAsStated(outcome, postJson(outcome))
  /\ \A i \in 1..Len(callResults) :
       \E outcome \in FetchOutcomes : ResolvesAsStated(outcome, callResults[i])
  /\ callTimers = Len(callPosts) - Len(callResults)
  /\ callTimers \in {0, 1}
  /\ call.at = "done" => callTimers = 0

\* a sendMedia call whose caption POST got a 2xx response and whose file POST was
\* aborted at the timeout: both resolved, and no timer is left armed
C12_Witness ==
  /\ call.op = "sendMedia" /\ call.at = "done"
  /\ Len(callResults) = 2
  /\ callResults[1].ok /\ callResults[1].status # None
  /\ callResults[2] = [ok |-> FALSE, status |-> None, error |-> Some(FetchAborted.err)]
  /\ callTimers = 0

---------------------------------------------------------------------------
(* Claims about the runtime holder (SpecRegistration)                      *)

NotInitialized == "rejected: WeChat runtime not initialized"

\* r's handler is at its getWechatRuntime() call and makes it in this step
GetsRuntime(r) == pc[r] = "getRuntime" /\ pc[r]' # "getRuntime"

C13_State ==
  \A r \in Reqs :
    ret[r] = NotInitialized =>
      /\ res[r] = NoResponse /\ rt[r] = None /\ cfg[r] = None
      /\ hostCalls[r] = <<>> /\ posts[r] = <<>>

C13_Step ==
  \A r \in Reqs :
    GetsRuntime(r) =>
      /\ runtime' = runtime
      /\ IF registered = None
           THEN ret[r]' = NotInitialized /\ res[r]' = NoResponse
           ELSE rt[r]' = registered /\ ret[r]' = "pending"

\* C13: getWechatRuntime fails with the "not initialized" error exactly when no
\* setWechatRuntime call came before it, and else returns the value of the most
\* recent one, leaving the stored value as it is; a request for the webhook path
\* that arrives before registration is rejected with that error and gets no
\* response.
C13_RuntimeHolder == []C13_State /\ [][C13_Step]_vars

\* the first request got the runtime of the first registration, the second one
\* that of a later registration
C13_Witness ==
  /\ rt["r1"] = Some("runtimeA")
  /\ rt["r2"] = Some("runtimeB")
  /\ runtime = Some("runtimeB")

---------------------------------------------------------------------------
(* Claims about normalizeWechatTarget (SpecTarget)                         *)

\* s starts with wechat: or wx: in some letter case
HasSchemePrefix(s) ==
  \E p \in {<<"w","e","c","h","a","t",":">>, <<"w","x",":">>} :
    Len(s) >= Len(p) /\ \A i \in 1..Len(p) : toLowerChar(s[i]) = p[i]

\* C14: for a destination s behind a wechat: or wx: prefix in any letter case, with
\* optional whitespace around the whole and after the prefix, normalizeWechatTarget
\* gives s trimmed: exactly one leading prefix is removed; a string without such a
\* prefix is only trimmed.
C14_OnePrefixRemoved ==
  (call.op = "sendText" /\ call.at # "resolve") =>
    /\ \A p \in SchemePrefixes, s \in Destinations, before \in Paddings,
          mid \in Paddings, after \in Paddings :
         call.to = before \o p \o mid \o s \o after => call.sessionName = trim(s)
    /\ ~HasSchemePrefix(trim(call.to)) => call.sessionName = trim(call.to)
    /\ \A i \in 1..Len(callPosts) : callPosts[i].session_name = call.sessionName
    /\ call.outcome = "returned" => call.chatId = call.sessionName

\* a call to " WeChat:\t wx:Bob" has posted to the session wx:Bob and returned it
C14_Witness ==
  /\ call.to = <<"\t"," ","W","e","C","h","a","t",":","\t"," ","w","x",":">> \o Bob
  /\ call.sessionName = <<"w","x",":">> \o Bob
  /\ Len(callPosts) = 1
  /\ callPosts[1].session_name = <<"w","x",":">> \o Bob
  /\ call.outcome = "returned" /\ call.chatId = <<"w","x",":">> \o Bob

---------------------------------------------------------------------------
(* Claims about onboarding (SpecOnboarding)                                *)

\* the wechat entry of a configuration, every field absent when there is none
WechatOf(c) ==
  IF c.channels = None \/ c.channels[1].wechat = None
    THEN [enabled |-> None, name |-> None, jsonBotBaseUrl |-> None, inboundToken |-> None]
    ELSE c.channels[1].wechat[1]

\* the other channels of a configuration
OtherChannelsOf(c) == IF c.channels = None THEN None ELSE c.channels[1].telegram

\* what C15 says of the last onboarding call, but for the base URL configure stores
OnboardingAsStated ==
  LET in == onboarding.input
      out == onboarding.result
  IN  /\ hostCfg = out
      /\ out.session = in.session
      /\ OtherChannelsOf(out) = OtherChannelsOf(in)
      /\ WechatOf(out).name = WechatOf(in).name
      /\ onboarding.op = "disable" =>
           /\ WechatOf(out).enabled = Some(FALSE)
           /\ WechatOf(out).jsonBotBaseUrl = WechatOf(in).jsonBotBaseUrl
           /\ WechatOf(out).inboundToken = WechatOf(in).inboundToken
           /\ ~resolveWechatAccount(hostCfg, None).enabled
      /\ onboarding.op = "configure" =>
           /\ WechatOf(out).enabled = Some(TRUE)
           /\ WechatOf(out).inboundToken =
                (IF onboarding.nextInboundToken = None \/ Blank(onboarding.nextInboundToken[1])
                   THEN None
                   ELSE Some(trim(onboarding.nextInboundToken[1])))
           /\ resolveWechatAccount(hostCfg, None).enabled

\* C15 as stated: disable changes only channels.wechat.enabled, to false; configure
\* yields enabled = true, stores the base URL with its trailing slashes stripped
\* and the trimmed inbound token, or none for a blank answer; both leave the other
\* channels and top-level keys as they were; resolveWechatAccount reports enabled =
\* false exactly when the last call was disable.
C15_OnboardingStoresStripped ==
  onboarding.op # "none" =>
    /\ OnboardingAsStated
    /\ onboarding.op = "configure" =>
         WechatOf(onboarding.result).jsonBotBaseUrl =
           Some(withoutTrailingSlash(onboarding.nextBaseUrl))

\* C15 as amended: the base URL configure stores is the answer trimmed of
\* surrounding whitespace and without its trailing / and \ characters; the rest as
\* stated.
C15_OnboardingStoresNormalized ==
  onboarding.op # "none" =>
    /\ OnboardingAsStated
    /\ onboarding.op = "configure" =>
         WechatOf(onboarding.result).jsonBotBaseUrl =
           Some(TrimmedUpToLastNonSlash(onboarding.nextBaseUrl))

\* disable on a configured, enabled account with a name, a base URL and a token
C15_Witness ==
  /\ onboarding.op = "disable"
  /\ WechatOf(onboarding.input) =
       WechatConfig(Some(TRUE), Some("work"), Some(<<"g","/","p">>), Some(Tok2))
  /\ WechatOf(hostCfg) =
       WechatConfig(Some(FALSE), Some("work"), Some(<<"g","/","p">>), Some(Tok2))
  /\ OtherChannelsOf(hostCfg) = Some("telegram")

---------------------------------------------------------------------------
(* Claims about reattempts (SpecOutbound)                                  *)

\* the POSTs an invocation of the delivery callback is to issue for a payload
PostCount(payload) ==
  (IF payload.text # None /\ ~Blank(payload.text[1]) THEN 1 ELSE 0)
  + Cardinality({i \in DOMAIN PayloadUrls(payload) : ~Blank(PayloadUrls(payload)[i])})

FailedResults(rs) == {i \in DOMAIN rs : ~rs[i].ok}

ReplyFailureLogs(r) ==
  {i \in DOMAIN logs[r] :
     logs[r][i].what \in {"wechat: json_bot /reply failed",
                          "wechat: json_bot /reply file failed"}}

C16_State ==
  /\ call.op = "sendText" => Len(callPosts) <= 1
  /\ call.op = "sendMedia" =>
       /\ Len(callPosts) <= 2
       /\ \A i, j \in DOMAIN callPosts : i # j => callPosts[i].type # callPosts[j].type
  /\ Len(callResults) <= Len(callPosts)
  /\ Cardinality(FailedResults(callResults)) <= 1
  /\ \A i \in FailedResults(callResults) :
       /\ i = Len(callResults) /\ i = Len(callPosts)
       /\ call.outcome = "threw"
       /\ call.error.status = callResults[i].status
       /\ call.error.err = orElse(callResults[i].error, "")
  /\ \A r \in Reqs :
       /\ Len(results[r]) <= Len(posts[r])
       /\ Cardinality(ReplyFailureLogs(r)) = Cardinality(FailedResults(results[r]))

C16_Step ==
  \A r \in Reqs :
    /\ (~InCallback(r) /\ InCallback(r)') =>
         Len(Pending(r)') = PostCount(inb[r].payload[1]')
    /\ (InCallback(r) /\ InCallback(r)') =>
         Len(posts[r]') + Len(Pending(r)') = Len(posts[r]) + Len(Pending(r))
    /\ (InCallback(r) /\ ~InCallback(r)') => Len(Pending(r)) = 0
    /\ ~(InCallback(r) \/ InCallback(r)') => posts[r]' = posts[r]

\* C16: no POST is reattempted: a sendText call issues at most one POST, a
\* sendMedia call at most two (caption, file), an invocation of the delivery
\* callback exactly one for a non-blank text plus one per non-blank media URL,
\* whatever the results; and a failed POST is thrown or logged exactly once.
C16_NoReattempt == []C16_State /\ [][C16_Step]_vars

\* an invocation for a text and two media URLs has returned after three POSTs, two
\* of them failed and each of these logged once
C16_Witness ==
  /\ inb["r1"].at = "dispatching"
  /\ inb["r1"].payload # None /\ PostCount(inb["r1"].payload[1]) = 3
  /\ Len(posts["r1"]) = 3 /\ Len(results["r1"]) = 3
  /\ Cardinality(FailedResults(results["r1"])) = 2
  /\ Cardinality(ReplyFailureLogs("r1")) = 2

---------------------------------------------------------------------------
(* Claims about concurrent requests (SpecConcurrent)                       *)

\* everything the model holds of one request
RequestState(r) ==
  <<req[r], pc[r], rt[r], cfg[r], size[r], nchunks[r], body[r], parsed[r], res[r], ret[r],
    inb[r], meta[r], hostCalls[r], logs[r], posts[r], results[r], timers[r], npayloads[r]>>

DispatchCalls(r) ==
  {i \in DOMAIN hostCalls[r] : hostCalls[r][i] = "dispatchReplyWithBufferedBlockDispatcher"}

\* r has work left that waits for nothing but its own events
Unfinished(r) ==
  \/ pc[r] \notin {"idle", "done"}
  \/ inb[r].at \in {"dispatching", "textPosted", "filePosted", "rejected"}

C17_State ==
  \A r \in Reqs :
    /\ \A i \in DOMAIN posts[r] :
         /\ posts[r][i].session_name = trim(stringOf(parsed[r][1].sender))
         /\ posts[r][i].url =
              TrimmedUpToLastNonSlash(BaseUrlOf(cfg[r][1])[1]) \o ReplySuffix
    /\ inb[r].at \in {"dispatching", "deliverText", "textPosted", "deliverMedia", "filePosted"}
         => Cardinality(DispatchCalls(r)) = 1
    /\ ((\A o \in Reqs : ~Running(o)) /\ Unfinished(r)) => ENABLED ConcurrentStep(r)

C17_Step ==
  \A r \in Reqs :
    \* the snapshot is the host's configuration when the handler was entered
    /\ cfg[r]' # cfg[r] => (cfg[r] = None /\ cfg[r]' = Some(hostCfg))
    \* a step of one request leaves every other request as it was
    /\ \A o \in Reqs \ {r} :
         RequestState(r)' # RequestState(r) => RequestState(o)' = RequestState(o)

\* C17: with requests interleaved in any way, every reply POST of a request
\* carries that request's own trimmed sender and goes to the base URL of the
\* configuration loaded when the request came in; a step of one request, a failure
\* included, changes nothing of another and never leaves another without a next
\* step; and every accepted request that reaches the dispatch makes its own
\* dispatch call, identical requests too.
C17_Independent == []C17_State /\ [][C17_Step]_vars

\* two requests of different senders, taken under different base URLs, have each
\* posted to their own: the first POST was aborted, the second was ok
C17_Witness ==
  /\ Len(posts["r1"]) = 1 /\ Len(posts["r2"]) = 1
  /\ posts["r1"][1].session_name = Alice /\ posts["r1"][1].url = <<"h">> \o ReplySuffix
  /\ posts["r2"][1].session_name = Bob /\ posts["r2"][1].url = <<"g">> \o ReplySuffix
  /\ Len(results["r1"]) = 1 /\ ~results["r1"][1].ok
  /\ Len(results["r2"]) = 1 /\ results["r2"][1].ok

---------------------------------------------------------------------------
(* C18                                                                     *)

\* the token the auth check compares: the bearer token when there is one,
\* otherwise the X-OpenClaw-Token header
PresentedToken(r) == IF BearerOf(r) # None THEN BearerOf(r) ELSE FallbackOf(r)

\* the four checks, each in terms of the request, the configuration loaded for
\* it and the body that was read
MethodPathFails(r) == ~(IsPost(req[r]) /\ PathOf(req[r]) = WebhookPath)

AuthFails(r) ==
  /\ ConfiguredInboundToken(cfg[r][1]) # <<>>
  /\ \/ falsy(PresentedToken(r))
     \/ trim(PresentedToken(r)[1]) # ConfiguredInboundToken(cfg[r][1])

BodyParseFails(r) == parsed[r] = None

FieldValidationFails(r) ==
  FieldMissing(parsed[r][1], "sender") \/ FieldMissing(parsed[r][1], "message")

\* the status the first failing check stands for; 0 is "not handled"
StatusByFirstFailingCheck(r) ==
  IF MethodPathFails(r) THEN 0
  ELSE IF AuthFails(r) THEN 401
  ELSE IF BodyParseFails(r) THEN 400
  ELSE IF FieldValidationFails(r) THEN 400
  ELSE 202

\* the invocation is over, and neither getWechatRuntime nor loadConfig threw
InvocationOver(r) == pc[r] = "done" /\ ret[r] \notin {NotInitialized, "rejected: host"}

\* what holds of the invocations that return, whatever the body
ReturnedAsStated(r) ==
  /\ res[r].ends <= 1
  /\ ret[r] = "true" => res[r].ends = 1 /\ res[r].statusCode \in {401, 400, 202}
  /\ ret[r] = "false" => res[r] = NoResponse

\* C18 as stated: with the runtime initialized and the configuration loaded, an
\* invocation that returns true has written exactly one response, of status 401,
\* 400 or 202, one that returns false has written none, no request gets two
\* responses, and the checks method/path, auth, body parse, field validation are
\* applied in that order, the first failing one alone determining the status.
C18_OneResponseByFirstFailingCheck ==
  \A r \in Reqs :
    /\ ReturnedAsStated(r)
    /\ InvocationOver(r) =>
         /\ res[r].statusCode = StatusByFirstFailingCheck(r)
         /\ ret[r] = IF StatusByFirstFailingCheck(r) = 0 THEN "false" ELSE "true"

---------------------------------------------------------------------------
(* C19                                                                     *)

\* the host calls made before the base URL is looked at: routing, store path,
\* envelope formatting, context, and the session-metadata recording
CallsBeforeBaseUrl == HostPipeline \o <<"recordSessionMetaFromInbound">>

\* request r was accepted under a configuration without a usable base URL
AcceptedWithoutBaseUrl(r) ==
  cfg[r] # None /\ res[r] = Accepted202 /\ BaseUrlMissing(cfg[r][1])

C19_State ==
  \A r \in Reqs :
    AcceptedWithoutBaseUrl(r) =>
      /\ \A i \in DOMAIN hostCalls[r] :
           hostCalls[r][i] # "dispatchReplyWithBufferedBlockDispatcher"
      /\ posts[r] = <<>>
      /\ inb[r].at \in {"none", "host", "meta", "account", "rejected", "failed", "done"}
      /\ Logged(r, MissingBaseUrlError.what) = (IF inb[r].at = "done" THEN 1 ELSE 0)
      /\ inb[r].at = "done" => hostCalls[r] = CallsBeforeBaseUrl

\* the step that leaves the base URL lookup is the one that logs and stops
C19_Step ==
  \A r \in Reqs :
    (AcceptedWithoutBaseUrl(r) /\ inb[r].at = "account" /\ inb'[r].at # "account") =>
      /\ inb'[r].at = "done"
      /\ logs'[r] = Append(logs[r], MissingBaseUrlError)
      /\ hostCalls'[r] = CallsBeforeBaseUrl

\* C19: a request accepted with 202 under a configuration whose jsonBotBaseUrl is
\* absent, empty or blank has the continuation log "wechat: missing
\* channels.wechat.jsonBotBaseUrl" and stop: the host dispatch is never called and
\* no POST is issued for it, although the routing, envelope and context calls and
\* recordSessionMetaFromInbound have been made by then.
C19_MissingBaseUrlStops == []C19_State /\ [][C19_Step]_vars

\* a request accepted under a whitespace-only base URL has logged the error and
\* stopped after its eight host calls, and its handler has returned true
C19_Witness ==
  \E r \in Reqs :
    /\ cfg[r] # None
    /\ BaseUrlOf(cfg[r][1]) = Some(<<" ", "\t">>)
    /\ res[r] = Accepted202 /\ ret[r] = "true"
    /\ inb[r].at = "done"
    /\ hostCalls[r] = CallsBeforeBaseUrl
    /\ Logged(r, MissingBaseUrlError.what) = 1
    /\ posts[r] = <<>>

---------------------------------------------------------------------------
(* C20                                                                     *)

EnabledOf(c) == WechatOf(c).enabled

\* two configurations that differ at most in channels.wechat.enabled
SameButEnabled(c1, c2) ==
  /\ c1.session = c2.session
  /\ OtherChannelsOf(c1) = OtherChannelsOf(c2)
  /\ [WechatOf(c1) EXCEPT !.enabled = None] = [WechatOf(c2) EXCEPT !.enabled = None]

\* two runs issue the same POSTs for as long as their POSTs got the same results:
\* the k-th POST is issued by both or by neither, and is the same POST
SamePostsWhileSameResults(posts1, results1, posts2, results2) ==
  \A k \in 1..(Len(posts1) + Len(posts2)) :
    ( /\ k - 1 <= Len(results1) /\ k - 1 <= Len(results2)
      /\ SubSeq(results1, 1, k - 1) = SubSeq(results2, 1, k - 1) )
    => /\ (k <= Len(posts1)) <=> (k <= Len(posts2))
       /\ k <= Len(posts1) /\ k <= Len(posts2) => posts1[k] = posts2[k]

\* two finished requests with the same request line and headers, under
\* configurations that differ at most in the enabled flag
TwinRequests(r1, r2) ==
  /\ Quiet(r1) /\ Quiet(r2)
  /\ req[r1] = req[r2]
  /\ cfg[r1] # None /\ cfg[r2] # None
  /\ SameButEnabled(cfg[r1][1], cfg[r2][1])

\* the handler treats twins alike: the body is read for both or for neither; on
\* the same body the response, the return value and the host calls, the dispatch
\* included, are the same; on the same reply payload the POSTs are the same while
\* their results are, and with the same results so are the logged failures
TwinsAlike(r1, r2) ==
  /\ (body[r1] = None) <=> (body[r2] = None)
  /\ body[r1] = body[r2] =>
       /\ res[r1] = res[r2] /\ ret[r1] = ret[r2] /\ parsed[r1] = parsed[r2]
       /\ hostCalls[r1] = hostCalls[r2]
       /\ (inb[r1].payload = inb[r2].payload /\ npayloads[r1] = npayloads[r2]) =>
            /\ SamePostsWhileSameResults(posts[r1], results[r1], posts[r2], results[r2])
            /\ results[r1] = results[r2] => inb[r1] = inb[r2] /\ logs[r1] = logs[r2]

\* two settled outbound calls with the same arguments, under configurations that
\* differ at most in the enabled flag
TwinCalls(i, j) ==
  /\ sent[i].call.op = sent[j].call.op
  /\ sent[i].call.to = sent[j].call.to
  /\ sent[i].call.text = sent[j].call.text
  /\ sent[i].call.mediaUrl = sent[j].call.mediaUrl
  /\ SameButEnabled(sent[i].call.cfg, sent[j].call.cfg)

CallsAlike(i, j) ==
  /\ SamePostsWhileSameResults(sent[i].posts, sent[i].results, sent[j].posts, sent[j].results)
  /\ sent[i].results = sent[j].results =>
       /\ sent[i].call.outcome = sent[j].call.outcome
       /\ sent[i].call.error = sent[j].call.error
       /\ sent[i].call.chatId = sent[j].call.chatId

\* request r was loaded a configuration that onboarding's disable had written,
\* presents the token it asks for, and carries a sender and a message
ValidWhileDisabled(r) ==
  /\ cfg[r] # None /\ parsed[r] # None
  /\ EnabledOf(cfg[r][1]) = Some(FALSE)
  /\ ~AuthFails(r)
  /\ ~FieldValidationFails(r)

\* C20: the enabled flag gates nothing. Two requests that differ only in the
\* enabled flag of the configuration loaded for them get the same response, the
\* same host calls and dispatch and the same POSTs; two sendText or sendMedia
\* calls that differ only in it issue the same POSTs and return or throw alike;
\* and a valid request under a disabled configuration is answered 202 and, a
\* base URL being configured, dispatched.
C20_EnabledGatesNothing ==
  /\ \A r1, r2 \in Reqs : TwinRequests(r1, r2) => TwinsAlike(r1, r2)
  /\ \A i, j \in DOMAIN sent : TwinCalls(i, j) => CallsAlike(i, j)
  /\ \A r \in Reqs :
       (Quiet(r) /\ ValidWhileDisabled(r)) =>
         /\ res[r] = Accepted202 /\ ret[r] = "true"
         /\ ~BaseUrlMissing(cfg[r][1]) => Cardinality(DispatchCalls(r)) = 1

\* after the same request was handled under an enabled configuration, disable
\* was run, and the request handled again: both were answered 202, dispatched,
\* and issued the same two POSTs; or the same sendMedia was called before and
\* after disable and both calls returned after the same two POSTs
C20_Witness ==
  \/ /\ TwinRequests("r1", "r2")
     /\ EnabledOf(cfg["r1"][1]) = Some(TRUE) /\ EnabledOf(cfg["r2"][1]) = Some(FALSE)
     /\ onboarding.op = "disable"
     /\ res["r2"] = Accepted202 /\ Cardinality(DispatchCalls("r2")) = 1
     /\ Len(posts["r2"]) = 2 /\ posts["r1"] = posts["r2"]
  \/ /\ Len(sent) = 2 /\ TwinCalls(1, 2)
     /\ EnabledOf(sent[1].call.cfg) = None /\ EnabledOf(sent[2].call.cfg) = Some(FALSE)
     /\ sent[2].call.op = "sendMedia" /\ sent[2].call.outcome = "returned"
     /\ Len(sent[2].posts) = 2 /\ sent[1].posts = sent[2].posts

====
